---- MODULE Spec2Model ----
(***************************************************************************)
(* Verification model of the n-ups imposition tool: the layout calculator  *)
(* (lib/imposition), the N-up exporter (lib/exportNUp.ts), the plan        *)
(* builder (lib/mapStoreToNUpPlan) and the export orchestration of         *)
(* ItemsHandler.tsx.                                                       *)
(*                                                                         *)
(* Numbers.  A JavaScript number is modelled as a record [k, v]: a finite  *)
(* value (k = "fin", v an integer count of millimetres), NaN, +Infinity,   *)
(* -Infinity, or the value undefined of an optional field.  Arithmetic on  *)
(* finite values is exact integer arithmetic: IEEE-754 rounding and the    *)
(* overflow of finite doubles near Number.MAX_VALUE are outside the model. *)
(***************************************************************************)
EXTENDS Integers, Sequences, FiniteSets, TLC

VARIABLES
    paper,      \* PaperConfig given to computeLayout
    image,      \* ImageConfig given to computeLayout
    layout,     \* <<>> before the call, <<result>> after computeLayout returned
    plan,       \* exportNUp: the NUpPlan argument
    epc,        \* exportNUp: where the call is (its awaits are the step boundaries)
    doc,        \* exportNUp: the PDFDocument being built
    ops,        \* exportNUp: the operators pushed to the page's content stream
    trims,      \* exportNUp: allTrimRects
    r,          \* exportNUp: row loop variable
    c,          \* exportNUp: column loop variable
    cell,       \* exportNUp: running cell index
    placed,     \* history: the cells whose source page has been drawn, in order
    result,     \* exportNUp: what the call returned (bytes) or threw (error)
    frontSlots,      \* imposition store: slots of the front side
    backSlots,       \* imposition store: slots of the back side
    frontSelection,  \* imposition store: page chosen for the front side, or null
    backSelection,   \* imposition store: page chosen for the back side, or null
    uploads,    \* IndexedDB store "uploads": the stored PDF of each file id
    call,       \* history: the latest call on the imposition store and the slots before it
    bpc,        \* buildCurrentNUpBytes: where the call is
    frontPlan,  \* buildCurrentNUpBytes: frontPlan
    backPlan,   \* buildCurrentNUpBytes: backPlan
    parts,      \* buildCurrentNUpBytes: parts (each tagged with the side it came from)
    out,        \* buildCurrentNUpBytes: what the call returned or threw
    files,      \* combine-PDF store: the in-memory files list
    idb,        \* IndexedDB store "pdfFiles": the stored record of each id, if any
    combineArg, \* combinePdfs: the array it was called with, as it is now
    merged,     \* combinePdfs: the merged document, and the array as it was passed
    uploaded,   \* PdfUpload: the list of uploaded PDFs the component shows
    previews,   \* IndexedDB store "previews": the record of each (file, page), if any
    pending     \* ItemsHandler / PdfUpload: the suspended async calls, each with
                \* the values its closure captured

layoutVars == <<paper, image, layout>>
exportVars == <<plan, epc, doc, ops, trims, r, c, cell, placed, result>>
storeVars == <<frontSlots, backSlots, frontSelection, backSelection, uploads, call>>
buildVars == <<bpc, frontPlan, backPlan, parts, out>>
combineVars == <<files, idb, combineArg, merged>>
uiVars == <<uploaded, previews, pending>>
vars == <<paper, image, layout, plan, epc, doc, ops, trims, r, c, cell, placed, result,
          frontSlots, backSlots, frontSelection, backSelection, uploads, call,
          bpc, frontPlan, backPlan, parts, out,
          files, idb, combineArg, merged,
          uploaded, previews, pending>>

(***************************************************************************)
(* JavaScript numbers                                                      *)
(***************************************************************************)
Fin(n) == [k |-> "fin", v |-> n]
NaN == [k |-> "nan", v |-> 0]
PosInf == [k |-> "inf", v |-> 1]
NegInf == [k |-> "inf", v |-> -1]
Undefined == [k |-> "undef", v |-> 0]

\* Number.isFinite(n): false for NaN, the infinities and undefined
IsFiniteNum(n) == n.k = "fin"

\* x coerced to a number in an arithmetic expression: undefined becomes NaN
ToNumber(n) == IF n.k = "undef" THEN NaN ELSE n

\* n > 0 (every comparison with NaN is false)
Gt0(n) == (n.k = "fin" /\ n.v > 0) \/ (n.k = "inf" /\ n.v > 0)

\* n <= 0
Le0(n) == (n.k = "fin" /\ n.v <= 0) \/ (n.k = "inf" /\ n.v < 0)

\* -n
Neg(n) ==
    LET x == ToNumber(n)
    IN  IF x.k = "nan" THEN NaN ELSE [k |-> x.k, v |-> 0 - x.v]

\* a + b
Add(a, b) ==
    LET x == ToNumber(a)
        y == ToNumber(b)
    IN  CASE x.k = "nan" \/ y.k = "nan" -> NaN
          [] x.k = "fin" /\ y.k = "fin" -> Fin(x.v + y.v)
          [] x.k = "inf" /\ y.k = "fin" -> x
          [] x.k = "fin" /\ y.k = "inf" -> y
          [] OTHER -> IF x.v = y.v THEN x ELSE NaN

\* a - b
Sub(a, b) == Add(a, Neg(b))

\* a * b
Mul(a, b) ==
    LET x == ToNumber(a)
        y == ToNumber(b)
        sgn(z) == IF z.v > 0 THEN 1 ELSE IF z.v < 0 THEN -1 ELSE 0
    IN  CASE x.k = "nan" \/ y.k = "nan" -> NaN
          [] x.k = "fin" /\ y.k = "fin" -> Fin(x.v * y.v)
          [] OTHER -> IF sgn(x) * sgn(y) = 0 THEN NaN
                      ELSE [k |-> "inf", v |-> sgn(x) * sgn(y)]

\* Math.floor(a / b)
FloorDiv(a, b) ==
    LET x == ToNumber(a)
        y == ToNumber(b)
        sgn(z) == IF z.v >= 0 THEN 1 ELSE -1
    IN  CASE x.k = "nan" \/ y.k = "nan" -> NaN
          [] x.k = "fin" /\ y.k = "fin" /\ y.v > 0 -> Fin(x.v \div y.v)
          [] x.k = "fin" /\ y.k = "fin" /\ y.v < 0 -> Fin((0 - x.v) \div (0 - y.v))
          [] x.k = "fin" /\ y.k = "fin" /\ y.v = 0 ->
                IF x.v = 0 THEN NaN ELSE [k |-> "inf", v |-> sgn(x)]
          [] x.k = "fin" /\ y.k = "inf" -> Fin(0)
          [] x.k = "inf" /\ y.k = "fin" -> [k |-> "inf", v |-> sgn(x) * sgn(y)]
          [] OTHER -> NaN

\* Math.max(0, n)
MathMax0(n) ==
    LET x == ToNumber(n)
    IN  CASE x.k = "nan" -> NaN
          [] x.k = "inf" -> IF x.v > 0 THEN x ELSE Fin(0)
          [] OTHER -> IF x.v > 0 THEN x ELSE Fin(0)

\* a ?? b
Coalesce(a, b) == IF a.k = "undef" THEN b ELSE a

(***************************************************************************)
(* lib/imposition: clamp0, computePrintedArea, computeLayout               *)
(***************************************************************************)
clamp0_identity(n) == ToNumber(n)

clamp0(n) == IF IsFiniteNum(n) /\ Gt0(n) THEN n ELSE Fin(0)

computePrintedArea(p) ==
    LET cut == clamp0(Coalesce(p.cutMarkLengthMm, Fin(0)))
        printedW == clamp0(Sub(Sub(Sub(p.width, p.margin.left), p.margin.right),
                               Mul(Fin(2), cut)))
        printedH == clamp0(Sub(Sub(Sub(p.height, p.margin.top), p.margin.bottom),
                               Mul(Fin(2), cut)))
    IN  [printedW |-> printedW, printedH |-> printedH,
         printedArea |-> Mul(printedW, printedH)]

count_roundUp(printed, tag, gap) ==
    IF Le0(tag) THEN Fin(0)
    ELSE MathMax0(Neg(FloorDiv(Neg(Add(printed, gap)), Add(tag, gap))))

count_noGuard(printed, tag, gap) ==
    MathMax0(FloorDiv(Add(printed, gap), Add(tag, gap)))

\* the per-axis count of computeLayout (cols from widths, rows from heights)
count(printed, tag, gap) ==
    IF Le0(tag) THEN Fin(0)
    ELSE MathMax0(FloorDiv(Add(printed, gap), Add(tag, gap)))

computeLayout(p, im) ==
    LET area == computePrintedArea(p)
        printedW == area.printedW
        printedH == area.printedH
        m == im.margin
        tagW == clamp0(Add(Add(im.width, clamp0(m.left)), clamp0(m.right)))
        tagH == clamp0(Add(Add(im.height, clamp0(m.top)), clamp0(m.bottom)))
        gapX == clamp0(p.gap.horizontal)
        gapY == clamp0(p.gap.vertical)
        cols == count(printedW, tagW, gapX)
        rows == count(printedH, tagH, gapY)
    IN  [rows |-> rows, cols |-> cols, items |-> Mul(rows, cols),
         tagW |-> tagW, tagH |-> tagH,
         printedW |-> printedW, printedH |-> printedH]

(***************************************************************************)
(* lib/exportNUp.ts: units, rectangles, cut marks                          *)
(*                                                                         *)
(* Lengths on the page are integers counting 1/254 pt, so that the factor  *)
(* 72/25.4 of mmToPt and the halvings of the centring are exact.           *)
(***************************************************************************)
MM_TO_PT == 720

mmToPt(mm) == mm * MM_TO_PT

\* x / 2
Half(x) == x \div 2

clampRotation(rot) == IF rot \in {Fin(90), Fin(180), Fin(270)} THEN rot ELSE Fin(0)

PtRect(x, y, w, h) == [x |-> x, y |-> y, width |-> w, height |-> h]

ptRectFromTrimAndBleed(xTrim, yTrim, trimPt, bleedPt) ==
    [trim |-> PtRect(xTrim, yTrim, trimPt.width, trimPt.height),
     outer |-> PtRect(xTrim - bleedPt.left, yTrim - bleedPt.bottom,
                      trimPt.width + bleedPt.left + bleedPt.right,
                      trimPt.height + bleedPt.top + bleedPt.bottom)]

\* one operator of the content stream: who pushed it, its name, its operands
Op(by, op, a, b, w, h, t) ==
    [by |-> by, op |-> op, a |-> a, b |-> b, w |-> w, h |-> h, t |-> t]

Op0(by, op) == Op(by, op, 0, 0, 0, 0, <<>>)
Op2(by, op, a, b) == Op(by, op, a, b, 0, 0, <<>>)

RECURSIVE SortAsc(_)
\* Array.from(set).sort((a, b) => a - b)
SortAsc(S) ==
    IF S = {} THEN <<>>
    ELSE LET lo == CHOOSE x \in S : \A y \in S : x <= y
         IN  <<lo>> \o SortAsc(S \ {lo})

RECURSIVE Flatten(_)
Flatten(ss) == IF ss = <<>> THEN <<>> ELSE Head(ss) \o Flatten(Tail(ss))

\* new Set(trims.flatMap(r => [r.x, r.x + r.width])), sorted
UniqueXs_noDedup(ts) ==
    Flatten([i \in 1..Len(ts) |-> <<ts[i].x, ts[i].x + ts[i].width>>])

UniqueXs(ts) == SortAsc({ts[i].x : i \in 1..Len(ts)}
                        \cup {ts[i].x + ts[i].width : i \in 1..Len(ts)})

UniqueYs(ts) == SortAsc({ts[i].y : i \in 1..Len(ts)}
                        \cup {ts[i].y + ts[i].height : i \in 1..Len(ts)})

\* draw(x1, y1, x2, y2)
DrawLine(x1, y1, x2, y2) ==
    <<Op2("marks", "moveTo", x1, y1), Op2("marks", "lineTo", x2, y2), Op0("marks", "stroke")>>

\* the body of drawCutMarksFromTrimRects after its early return
MarkOps(ts, mark, perimeterBleedPt) ==
    LET cutLenPt == mmToPt(mark.cutLenMm)
        offsetPt == mmToPt(Coalesce(mark.offsetMm, Fin(0)).v)
        xs == UniqueXs(ts)
        ys == UniqueYs(ts)
        left == xs[1]
        right == xs[Len(xs)]
        bottom == ys[1]
        top == ys[Len(ys)]
        offL == perimeterBleedPt.left + offsetPt
        offR == perimeterBleedPt.right + offsetPt
        offT == perimeterBleedPt.top + offsetPt
        offB == perimeterBleedPt.bottom + offsetPt
    IN  <<Op0("marks", "pushGraphicsState"), Op2("marks", "setLineCap", 0, 0),
          Op2("marks", "setLineJoin", 0, 0),
          Op2("marks", "setLineWidth", mark.cutStrokePt, 0),
          Op0("marks", "setStrokingColor")>>
        \o Flatten([i \in 1..Len(xs) |->
              DrawLine(xs[i], bottom - offB - cutLenPt, xs[i], bottom - offB)
              \o DrawLine(xs[i], top + offT, xs[i], top + offT + cutLenPt)])
        \o Flatten([j \in 1..Len(ys) |->
              DrawLine(left - offL - cutLenPt, ys[j], left - offL, ys[j])
              \o DrawLine(right + offR, ys[j], right + offR + cutLenPt, ys[j])])
        \o <<Op0("marks", "popGraphicsState")>>

drawCutMarksFromTrimRects_noEarlyReturn(ts, mark, perimeterBleedPt) ==
    MarkOps(ts, mark, perimeterBleedPt)

drawCutMarksFromTrimRects(ts, mark, perimeterBleedPt) ==
    IF Len(ts) = 0 THEN <<>> ELSE MarkOps(ts, mark, perimeterBleedPt)

(***************************************************************************)
(* lib/exportNUp.ts: exportNUp and placePdfPageNoScale                     *)
(***************************************************************************)
\* the lengths exportNUp derives from the plan before its loop
Geometry(pl) ==
    LET pageWidthPt == mmToPt(pl.paper.widthMm)
        pageHeightPt == mmToPt(pl.paper.heightMm)
        xOrigin == mmToPt(pl.paper.marginMm.left)
        yOrigin == mmToPt(pl.paper.marginMm.bottom)
        usableW == pageWidthPt - mmToPt(pl.paper.marginMm.left + pl.paper.marginMm.right)
        trimWPt == mmToPt(pl.slot.trimSizeMm.width)
        trimHPt == mmToPt(pl.slot.trimSizeMm.height)
        bleedPt == [top |-> mmToPt(pl.slot.bleedMm.top),
                    right |-> mmToPt(pl.slot.bleedMm.right),
                    bottom |-> mmToPt(pl.slot.bleedMm.bottom),
                    left |-> mmToPt(pl.slot.bleedMm.left)]
        outerW == trimWPt + bleedPt.left + bleedPt.right
        outerH == trimHPt + bleedPt.top + bleedPt.bottom
        gridTotalW == outerW * pl.layout.cols
    IN  [pageWidthPt |-> pageWidthPt, pageHeightPt |-> pageHeightPt,
         trimWPt |-> trimWPt, trimHPt |-> trimHPt, bleedPt |-> bleedPt,
         outerW |-> outerW, outerH |-> outerH,
         gridStartX |-> xOrigin + Half(usableW - gridTotalW),
         gridStartY |-> yOrigin + mmToPt(pl.marks.cutLenMm) + bleedPt.bottom]

\* the trim rectangle starts where the outer rectangle should
CellRect_trimAtGridStart(pl, rr, cc) ==
    LET g == Geometry(pl)
        xTrim == g.gridStartX + cc * g.outerW
        yTrim == g.gridStartY + rr * g.outerH
    IN  ptRectFromTrimAndBleed(xTrim, yTrim,
                               [width |-> g.trimWPt, height |-> g.trimHPt], g.bleedPt)

\* the trim and outer rectangles of the cell in row rr, column cc
CellRect(pl, rr, cc) ==
    LET g == Geometry(pl)
        xTrim == g.gridStartX + cc * g.outerW + g.bleedPt.left
        yTrim == g.gridStartY + rr * g.outerH
    IN  ptRectFromTrimAndBleed(xTrim, yTrim,
                               [width |-> g.trimWPt, height |-> g.trimHPt], g.bleedPt)

\* slots[cell] (0-based); a cell that holds no source page is null
NullSlot == [null |-> TRUE, pdfBytes |-> [ok |-> TRUE, pageCount |-> 0, w |-> 0, h |-> 0],
             pageIndex |-> 0, rotateDeg |-> Undefined]

SlotInput(pdfBytes, pageIndex, rotateDeg) ==
    [null |-> FALSE, pdfBytes |-> pdfBytes, pageIndex |-> pageIndex, rotateDeg |-> rotateDeg]

\* doc.embedPdf(bytes, [pageIndex]) can hand back the page
EmbedYieldsPage(slotData) ==
    /\ slotData.pdfBytes.ok
    /\ slotData.pageIndex >= 0
    /\ slotData.pageIndex < slotData.pdfBytes.pageCount

\* the operators placePdfPageNoScale pushes once the page is embedded
PlaceOps_preSwapped(slotData, outer, rotateDeg) ==
    LET srcW == slotData.pdfBytes.w
        srcH == slotData.pdfBytes.h
        swap == rotateDeg \in {Fin(90), Fin(270)}
        cx == outer.x + Half(outer.width)
        cy == outer.y + Half(outer.height)
    IN  <<Op0("place", "pushGraphicsState"), Op2("place", "translate", cx, cy),
          Op2("place", "rotateDegrees", rotateDeg.v, 0),
          Op("place", "drawPage",
             0 - Half(IF swap THEN srcH ELSE srcW), 0 - Half(IF swap THEN srcW ELSE srcH),
             srcW, srcH, <<>>),
          Op0("place", "popGraphicsState")>>

PlaceOps(slotData, outer, rotateDeg) ==
    LET srcW == slotData.pdfBytes.w
        srcH == slotData.pdfBytes.h
        cx == outer.x + Half(outer.width)
        cy == outer.y + Half(outer.height)
    IN  <<Op0("place", "pushGraphicsState"), Op2("place", "translate", cx, cy),
          Op2("place", "rotateDegrees", rotateDeg.v, 0),
          Op("place", "drawPage", 0 - Half(srcW), 0 - Half(srcH), srcW, srcH, <<>>),
          Op0("place", "popGraphicsState")>>

\* a cell rotation of 0 gives way to the slot default, as with ||
EffectiveRotation_zeroFallsBack(pl, slotData) ==
    clampRotation(Coalesce(IF slotData.rotateDeg \in {Undefined, Fin(0)}
                           THEN pl.slot.defaultRotateDeg ELSE slotData.rotateDeg, Fin(0)))

\* the rotation exportNUp passes for a filled cell
EffectiveRotation(pl, slotData) ==
    clampRotation(Coalesce(Coalesce(slotData.rotateDeg, pl.slot.defaultRotateDeg), Fin(0)))

\* the three fields, empty ones kept
MetaText_unfiltered(meta) == <<meta.date, meta.customerName, meta.description>>

\* [meta?.date, meta?.customerName, meta?.description].filter(Boolean)
MetaText(meta) ==
    SelectSeq(<<meta.date, meta.customerName, meta.description>>, LAMBDA x : x # "")

\* the graphics state pushed for the text is not popped
MetaOps_noPop(pl) ==
    IF MetaText(pl.meta) # <<>> /\ pl.meta.displayMeta
    THEN <<Op0("meta", "pushGraphicsState"), Op0("meta", "setFillingColor"),
           Op("meta", "drawText", mmToPt(pl.paper.marginMm.left),
              mmToPt(pl.paper.marginMm.bottom), 0, 0, MetaText(pl.meta))>>
    ELSE <<>>

MetaOps(pl) ==
    IF MetaText(pl.meta) # <<>> /\ pl.meta.displayMeta
    THEN <<Op0("meta", "pushGraphicsState"), Op0("meta", "setFillingColor"),
           Op("meta", "drawText", mmToPt(pl.paper.marginMm.left),
              mmToPt(pl.paper.marginMm.bottom), 0, 0, MetaText(pl.meta)),
           Op0("meta", "popGraphicsState")>>
    ELSE <<>>

NoDoc == [created |-> FALSE, title |-> "", pages |-> <<>>, embedded |-> 0]
NoResult == [kind |-> "none", err |-> "", title |-> "", pages |-> <<>>]
Thrown(msg) == [kind |-> "error", err |-> msg, title |-> "", pages |-> <<>>]

\* the cell count check at the head of exportNUp
ExportValidate_noGate ==
    /\ epc = "start"
    /\ epc' = "create"
    /\ UNCHANGED <<plan, doc, ops, trims, r, c, cell, placed, result>>

ExportValidate ==
    /\ epc = "start"
    /\ LET cellCount == plan.layout.rows * plan.layout.cols
       IN  IF Len(plan.slots) # cellCount
           THEN /\ epc' = "failed"
                /\ result' = Thrown("slots length must equal rows*cols")
           ELSE /\ epc' = "create"
                /\ result' = result
    /\ UNCHANGED <<plan, doc, ops, trims, r, c, cell, placed>>

\* PDFDocument.create() resolved: title, page, loop variables
ExportCreateDoc ==
    /\ epc = "create"
    /\ doc' = [created |-> TRUE, title |-> plan.meta.customerName,
               pages |-> <<[width |-> mmToPt(plan.paper.widthMm),
                            height |-> mmToPt(plan.paper.heightMm)]>>,
               embedded |-> 0]
    /\ trims' = <<>> /\ cell' = 0 /\ r' = 0 /\ c' = 0
    /\ epc' = "cells"
    /\ UNCHANGED <<plan, ops, placed, result>>

\* the inner loop has run out of columns: next row
ExportNextRow ==
    /\ epc = "cells" /\ r < plan.layout.rows /\ c >= plan.layout.cols
    /\ r' = r + 1 /\ c' = 0
    /\ UNCHANGED <<plan, epc, doc, ops, trims, cell, placed, result>>

\* an empty cell is passed over before cell += 1
ExportCellEmpty_keepsCell ==
    /\ epc = "cells" /\ r < plan.layout.rows /\ c < plan.layout.cols
    /\ plan.slots[cell + 1].null
    /\ trims' = Append(trims, CellRect(plan, r, c).trim)
    /\ c' = c + 1
    /\ UNCHANGED <<plan, epc, doc, ops, r, cell, placed, result>>

\* one pass of the inner loop over an empty cell
ExportCellEmpty ==
    /\ epc = "cells" /\ r < plan.layout.rows /\ c < plan.layout.cols
    /\ plan.slots[cell + 1].null
    /\ trims' = Append(trims, CellRect(plan, r, c).trim)
    /\ cell' = cell + 1 /\ c' = c + 1
    /\ UNCHANGED <<plan, epc, doc, ops, r, placed, result>>

\* one pass of the inner loop over a filled cell, up to the await of embedPdf
ExportCellPlace ==
    /\ epc = "cells" /\ r < plan.layout.rows /\ c < plan.layout.cols
    /\ ~plan.slots[cell + 1].null
    /\ trims' = Append(trims, CellRect(plan, r, c).trim)
    /\ epc' = "embed"
    /\ UNCHANGED <<plan, doc, ops, r, c, cell, placed, result>>

\* placePdfPageNoScale after embedPdf handed back the page; then cell += 1
PlaceEmbedded ==
    /\ epc = "embed"
    /\ EmbedYieldsPage(plan.slots[cell + 1])
    /\ LET slotData == plan.slots[cell + 1]
           rot == EffectiveRotation(plan, slotData)
       IN  /\ ops' = ops \o PlaceOps(slotData, CellRect(plan, r, c).outer, rot)
           /\ placed' = Append(placed, [cell |-> cell, r |-> r, c |-> c, rotateDeg |-> rot])
    /\ doc' = [doc EXCEPT !.embedded = @ + 1]
    /\ cell' = cell + 1 /\ c' = c + 1
    /\ epc' = "cells"
    /\ UNCHANGED <<plan, trims, r, result>>

\* the cell whose page cannot be embedded is left empty and the loop goes on
PlaceFailed_skipsCell ==
    /\ epc = "embed"
    /\ ~EmbedYieldsPage(plan.slots[cell + 1])
    /\ cell' = cell + 1 /\ c' = c + 1
    /\ epc' = "cells"
    /\ UNCHANGED <<plan, doc, ops, trims, r, placed, result>>

\* embedPdf rejected (unreadable bytes, page out of range) or handed back nothing
PlaceFailed ==
    /\ epc = "embed"
    /\ ~EmbedYieldsPage(plan.slots[cell + 1])
    /\ \/ /\ plan.slots[cell + 1].pdfBytes.ok
          /\ result' = Thrown("Invalid pageIndex")
       \/ result' = Thrown("embedPdf rejected")
    /\ epc' = "failed"
    /\ UNCHANGED <<plan, doc, ops, trims, r, c, cell, placed>>

\* after the loops: cut marks, metadata line, up to the await of doc.save
ExportFinish ==
    /\ epc = "cells" /\ r >= plan.layout.rows
    /\ ops' = ops \o drawCutMarksFromTrimRects(trims, plan.marks, Geometry(plan).bleedPt)
                  \o MetaOps(plan)
    /\ epc' = "save"
    /\ UNCHANGED <<plan, doc, trims, r, c, cell, placed, result>>

\* doc.save resolved: the bytes of the one-page document
ExportSave ==
    /\ epc = "save"
    /\ result' = [kind |-> "bytes", err |-> "", title |-> doc.title,
                  pages |-> <<[width |-> doc.pages[1].width, height |-> doc.pages[1].height,
                               ops |-> ops]>>]
    /\ epc' = "done"
    /\ UNCHANGED <<plan, doc, ops, trims, r, c, cell, placed>>

\* exportNUp is not running
NoPlan == [slots |-> <<>>]
ExportIdle ==
    /\ plan = NoPlan /\ epc = "idle" /\ doc = NoDoc /\ ops = <<>> /\ trims = <<>>
    /\ r = 0 /\ c = 0 /\ cell = 0 /\ placed = <<>> /\ result = NoResult

(***************************************************************************)
(* lib/mapStoreToNUpPlan: normalizeRotation, extractPageAsPdfBytes,        *)
(* mapStoreToNUpPlan                                                       *)
(***************************************************************************)
\* a % b of JavaScript (the sign of the result is the sign of a), for b > 0
JsRem(a, b) == IF a >= 0 THEN a % b ELSE 0 - ((0 - a) % b)

normalizeRotation(d) ==
    IF d.k # "fin" THEN Fin(0)
    ELSE LET n == JsRem(JsRem(d.v, 360) + 360, 360)
         IN  IF n = 90 \/ n = 180 \/ n = 270 THEN Fin(n) ELSE Fin(0)

\* store values: a selection or null, a slot or undefined, a stored PDF or nothing
NoSelection == [null |-> TRUE, fileId |-> "", pageNumber |-> 0]
Selection(fileId, pageNumber) == [null |-> FALSE, fileId |-> fileId, pageNumber |-> pageNumber]
EmptySlot == [empty |-> TRUE, sourceFileId |-> "", sourcePageNumber |-> 0,
              rotationDeg |-> Undefined]
UploadedImage(fileId, pageNumber, rotationDeg) ==
    [empty |-> FALSE, sourceFileId |-> fileId, sourcePageNumber |-> pageNumber,
     rotationDeg |-> rotationDeg]
NoPdf == [present |-> FALSE, pages |-> <<>>]
\* a stored PDF: the size of each of its pages
StoredPdf(pages) == [present |-> TRUE, pages |-> pages]
PageMm(wMm, hMm) == [w |-> mmToPt(wMm), h |-> mmToPt(hMm), embeddable |-> TRUE]
\* a page that copyPages copies but whose copy doc.embedPdf rejects
UnembeddablePageMm(wMm, hMm) == [w |-> mmToPt(wMm), h |-> mmToPt(hMm), embeddable |-> FALSE]

Failure(msg) == [kind |-> "error", err |-> msg]

\* extractPageAsPdfBytes: a fresh one-page document, or the error thrown
extractPageAsPdfBytes(db, fileId, pageNumber) ==
    LET rec == db[fileId]
        pageIndex == pageNumber - 1
    IN  IF ~rec.present THEN Failure("No PDF found")
        ELSE IF pageIndex < 0 \/ pageIndex >= Len(rec.pages)
             THEN Failure("Invalid page number")
             ELSE [kind |-> "bytes", err |-> "",
                   pdfBytes |-> [ok |-> rec.pages[pageIndex + 1].embeddable,
                                 pageCount |-> 1,
                                 w |-> rec.pages[pageIndex + 1].w,
                                 h |-> rec.pages[pageIndex + 1].h]]

\* state.frontSlots[0]?.rotationDeg ?? 0
FirstRotation(slots) ==
    IF Len(slots) = 0 \/ slots[1].empty THEN Fin(0) ELSE Coalesce(slots[1].rotationDeg, Fin(0))

\* normalizeRotation(state.frontSlots[0]?.rotationDeg ?? 0), or of backSlots
SideRotation(side) ==
    normalizeRotation(FirstRotation(IF side = "front" THEN frontSlots ELSE backSlots))

\* the plan object mapStoreToNUpPlan returns, from the store's paper and image
PlanFromStore(lay, pdfBytes, defaultRotateDeg) ==
    [paper |-> [widthMm |-> paper.width.v, heightMm |-> paper.height.v,
                marginMm |-> [top |-> paper.margin.top.v, right |-> paper.margin.right.v,
                              bottom |-> paper.margin.bottom.v,
                              left |-> paper.margin.left.v]],
     slot |-> [trimSizeMm |-> [width |-> image.width.v, height |-> image.height.v],
               bleedMm |-> [top |-> image.margin.top.v, right |-> image.margin.right.v,
                            bottom |-> image.margin.bottom.v,
                            left |-> image.margin.left.v],
               defaultRotateDeg |-> defaultRotateDeg],
     layout |-> [rows |-> lay.rows.v, cols |-> lay.cols.v, auto |-> FALSE],
     marks |-> [cutLenMm |-> Coalesce(paper.cutMarkLengthMm, Fin(3)).v,
                cutStrokePt |-> 1,   \* 0.5 pt, counted in half points
                offsetMm |-> Coalesce(image.margin.top, Fin(0))],
     color |-> [keepCMYK |-> TRUE, markColor |-> "K100"],
     slots |-> [i \in 1..(lay.rows.v * lay.cols.v) |->
                  [null |-> FALSE, pdfBytes |-> pdfBytes, pageIndex |-> 0,
                   rotateDeg |-> defaultRotateDeg]],
     meta |-> [date |-> "", customerName |-> "", description |-> "",
               displayMeta |-> FALSE]]

\* the plan has one slot per slot of the store's array for the side
MapExtracted_slotsOfStore(ex, side) ==
    IF ex.kind = "error" THEN ex
    ELSE [kind |-> "plan", err |-> "",
          plan |-> [PlanFromStore(computeLayout(paper, image), ex.pdfBytes, SideRotation(side))
                      EXCEPT !.slots =
                         [i \in 1..Len(IF side = "front" THEN frontSlots ELSE backSlots) |->
                             [null |-> FALSE, pdfBytes |-> ex.pdfBytes, pageIndex |-> 0,
                              rotateDeg |-> SideRotation(side)]]]]

\* mapStoreToNUpPlan once extractPageAsPdfBytes has settled
MapExtracted(ex, side) ==
    IF ex.kind = "error" THEN ex
    ELSE [kind |-> "plan", err |-> "",
          plan |-> PlanFromStore(computeLayout(paper, image), ex.pdfBytes,
                                 SideRotation(side))]

SideSelection(side) == IF side = "front" THEN frontSelection ELSE backSelection

\* mapStoreToNUpPlan(side) on the current store: null, a plan, or the error thrown
mapStoreToNUpPlan(side) ==
    IF SideSelection(side).null THEN [kind |-> "null", err |-> ""]
    ELSE MapExtracted(extractPageAsPdfBytes(uploads, SideSelection(side).fileId,
                                            SideSelection(side).pageNumber), side)

(***************************************************************************)
(* ItemsHandler.tsx: buildCurrentNUpBytes                                  *)
(***************************************************************************)
\* useImpositionStore(s => s.paper.duplex ?? false)
duplex == paper.duplex

\* a call of exportNUp(pl) begins
StartExport(pl) ==
    /\ plan' = pl /\ epc' = "start" /\ doc' = NoDoc /\ ops' = <<>> /\ trims' = <<>>
    /\ r' = 0 /\ c' = 0 /\ cell' = 0 /\ placed' = <<>> /\ result' = NoResult

NoPlanYet == [kind |-> "none", err |-> ""]
ReturnedNull == [kind |-> "null", err |-> "", title |-> "", pages |-> <<>>]

\* const frontPlan = await mapStoreToNUpPlan("front")
FrontMapped(m) ==
    IF m.kind = "error"
    THEN bpc' = "failed" /\ out' = Thrown(m.err) /\ frontPlan' = frontPlan
    ELSE bpc' = "mapBack" /\ out' = out /\ frontPlan' = m

BuildMapFront ==
    /\ bpc = "start"
    /\ FrontMapped(mapStoreToNUpPlan("front"))
    /\ UNCHANGED <<backPlan, parts>>

\* const backPlan = ...; if (!frontPlan && !backPlan) return null
BackMapped(m) ==
    IF m.kind = "error"
    THEN bpc' = "failed" /\ out' = Thrown(m.err) /\ backPlan' = backPlan
    ELSE /\ backPlan' = m
         /\ IF frontPlan.kind = "null" /\ m.kind = "null"
            THEN bpc' = "done" /\ out' = ReturnedNull
            ELSE bpc' = "exportFront" /\ out' = out

\* duplex ? await mapStoreToNUpPlan("back") : null
BuildMapBack ==
    /\ bpc = "mapBack"
    /\ BackMapped(IF duplex THEN mapStoreToNUpPlan("back") ELSE [kind |-> "null", err |-> ""])
    /\ UNCHANGED <<frontPlan, parts>>

\* if (frontPlan) parts.push(await exportNUp(frontPlan)): the call
BuildExportFront ==
    /\ bpc = "exportFront"
    /\ IF frontPlan.kind = "plan"
       THEN StartExport(frontPlan.plan) /\ bpc' = "waitFront"
       ELSE UNCHANGED exportVars /\ bpc' = "exportBack"
    /\ UNCHANGED <<frontPlan, backPlan, parts, out>>

\* exportNUp(frontPlan) settled: push its bytes, or let its error out
BuildFrontSettled ==
    /\ bpc = "waitFront" /\ epc \in {"done", "failed"}
    /\ IF epc = "done"
       THEN /\ parts' = Append(parts, [side |-> "front", bytes |-> result])
            /\ bpc' = "exportBack" /\ out' = out
       ELSE parts' = parts /\ bpc' = "failed" /\ out' = result
    /\ UNCHANGED <<frontPlan, backPlan>>
    /\ UNCHANGED exportVars

\* if (backPlan) parts.push(await exportNUp(backPlan)): the call
BuildExportBack ==
    /\ bpc = "exportBack"
    /\ IF backPlan.kind = "plan"
       THEN StartExport(backPlan.plan) /\ bpc' = "waitBack"
       ELSE UNCHANGED exportVars /\ bpc' = "merge"
    /\ UNCHANGED <<frontPlan, backPlan, parts, out>>

\* a failed back export is dropped and the front export alone goes on to the merge
BuildBackSettled_keepsFront ==
    /\ bpc = "waitBack" /\ epc \in {"done", "failed"}
    /\ IF epc = "done"
       THEN parts' = Append(parts, [side |-> "back", bytes |-> result])
       ELSE parts' = parts
    /\ bpc' = "merge" /\ out' = out
    /\ UNCHANGED <<frontPlan, backPlan>>
    /\ UNCHANGED exportVars

\* exportNUp(backPlan) settled: push its bytes, or let its error out
BuildBackSettled ==
    /\ bpc = "waitBack" /\ epc \in {"done", "failed"}
    /\ IF epc = "done"
       THEN /\ parts' = Append(parts, [side |-> "back", bytes |-> result])
            /\ bpc' = "merge" /\ out' = out
       ELSE parts' = parts /\ bpc' = "failed" /\ out' = result
    /\ UNCHANGED <<frontPlan, backPlan>>
    /\ UNCHANGED exportVars

\* the parts taken last to first
MergedPages_backFirst(ps) == Flatten([i \in 1..Len(ps) |-> ps[Len(ps) + 1 - i].bytes.pages])

\* every page of every part, copied in order into a new document
MergedPages(ps) == Flatten([i \in 1..Len(ps) |-> ps[i].bytes.pages])

\* one part is returned as it is, otherwise the merged document is saved
BuildMerge ==
    /\ bpc = "merge"
    /\ out' = IF Len(parts) = 1 THEN parts[1].bytes
              ELSE [kind |-> "bytes", err |-> "", title |-> "", pages |-> MergedPages(parts)]
    /\ bpc' = "done"
    /\ UNCHANGED <<frontPlan, backPlan, parts>>

\* buildCurrentNUpBytes is not running
BuildIdle ==
    /\ bpc = "none" /\ frontPlan = NoPlanYet /\ backPlan = NoPlanYet
    /\ parts = <<>> /\ out = NoResult

(***************************************************************************)
(* store/useImpositionStore.ts: the slot arrays                            *)
(***************************************************************************)
NoCall == [op |-> "none", n |-> 0, front |-> <<>>, back |-> <<>>]

\* every filled slot is emptied, whatever its file
clearSlotsOf_anyFile(arr, fileId) ==
    [i \in 1..Len(arr) |-> EmptySlot]

\* arr.map((it) => it?.sourceFileId === fileId ? undefined : it)
clearSlotsOf(arr, fileId) ==
    [i \in 1..Len(arr) |->
        IF ~arr[i].empty /\ arr[i].sourceFileId = fileId THEN EmptySlot ELSE arr[i]]

\* clearByFileId(fileId)
ClearByFileId(fileId) ==
    /\ frontSlots' = clearSlotsOf(frontSlots, fileId)
    /\ backSlots' = clearSlotsOf(backSlots, fileId)
    /\ call' = [op |-> "clearByFileId", fileId |-> fileId,
                front |-> frontSlots, back |-> backSlots]
    /\ UNCHANGED <<frontSelection, backSelection, uploads>>

\* the slots beyond n are kept
padTo_noTruncate(arr, n) ==
    IF n <= 0 THEN <<>>
    ELSE IF Len(arr) >= n THEN arr
    ELSE arr \o [i \in 1..(n - Len(arr)) |-> EmptySlot]

padTo(arr, n) ==
    IF n <= 0 THEN <<>>
    ELSE IF Len(arr) = n THEN arr
    ELSE IF Len(arr) > n THEN SubSeq(arr, 1, n)
    ELSE arr \o [i \in 1..(n - Len(arr)) |-> EmptySlot]

\* ensureCapacity(slotsPerSheet), slotsPerSheet an integer
EnsureCapacity(slotsPerSheet) ==
    /\ frontSlots' = padTo(frontSlots, slotsPerSheet)
    /\ backSlots' = padTo(backSlots, slotsPerSheet)
    /\ call' = [op |-> "ensureCapacity", n |-> slotsPerSheet,
                front |-> frontSlots, back |-> backSlots]
    /\ UNCHANGED <<frontSelection, backSelection, uploads>>

\* the imposition store and the uploads database as they are before any upload
StoreIdle ==
    /\ frontSlots = <<>> /\ backSlots = <<>>
    /\ frontSelection = NoSelection /\ backSelection = NoSelection
    /\ uploads = [f \in {"f1", "f2"} |-> NoPdf]
    /\ call = NoCall

(***************************************************************************)
(* combine-pdf-area: the files store, its IndexedDB records and combinePdfs *)
(* A record is [id, name, order, file]: ids and names are integers that    *)
(* stand for the rank of the string in key order and in collation order,   *)
(* file is the sequence of pages of the uploaded PDF.                       *)
(***************************************************************************)
PdfFileRecord(id, name, order, file) ==
    [id |-> id, name |-> name, order |-> order, file |-> file]

NoRecord == [id |-> 0, name |-> 0, order |-> 0, file |-> <<>>]

\* the comparator of normalizeOrder and getAllFilesSorted:
\* (a.order ?? 0) - (b.order ?? 0) || a.name.localeCompare(b.name)
CompareOrderName(a, b) ==
    IF a.order # b.order THEN a.order - b.order ELSE a.name - b.name

\* the comparator of combinePdfs: a.order - b.order
CompareOrder(a, b) == a.order - b.order

Compare(a, b, withName) ==
    IF withName THEN CompareOrderName(a, b) ELSE CompareOrder(a, b)

\* Array.prototype.sort is stable: x goes behind every element that does not
\* compare greater than it
InsertSorted(sorted, x, withName) ==
    LET behind == {i \in 1..Len(sorted) : Compare(sorted[i], x, withName) <= 0}
        at == Cardinality(behind)
    IN  SubSeq(sorted, 1, at) \o <<x>> \o SubSeq(sorted, at + 1, Len(sorted))

RECURSIVE StableSort(_, _)
StableSort(arr, withName) ==
    IF arr = <<>> THEN <<>>
    ELSE InsertSorted(StableSort(SubSeq(arr, 1, Len(arr) - 1), withName),
                      arr[Len(arr)], withName)

\* the sorted records keep the order values they came with
Renumber_keepsOrder(sorted) == sorted

\* .map((f, index) => ({ ...f, order: index + 1 }))
Renumber(sorted) ==
    [i \in 1..Len(sorted) |->
        PdfFileRecord(sorted[i].id, sorted[i].name, i, sorted[i].file)]

normalizeOrder(list) == Renumber(StableSort(list, TRUE))

\* db.getAll: the stored records in key order
RECURSIVE GetAllFrom(_, _)
GetAllFrom(db, id) ==
    IF id \notin DOMAIN db THEN <<>>
    ELSE (IF db[id] = NoRecord THEN <<>> ELSE <<db[id]>>) \o GetAllFrom(db, id + 1)

getAll(db) == GetAllFrom(db, 1)

getAllFilesSorted(db) == StableSort(getAll(db), TRUE)

\* db.put of one record, keyPath "id"
put(db, record) == [db EXCEPT ![record.id] = record]

RECURSIVE PutEach(_, _)
PutEach(db, records) ==
    IF records = <<>> THEN db
    ELSE PutEach(put(db, records[1]), SubSeq(records, 2, Len(records)))

saveFile(db, record) == put(db, record)

saveManyFiles(db, records) == IF Len(records) = 0 THEN db ELSE PutEach(db, records)

deleteFileById(db, id) ==
    IF id \in DOMAIN db THEN [db EXCEPT ![id] = NoRecord] ELSE db

\* list.filter((f) => f.id !== id)
FilterOutId(list, id) == SelectSeq(list, LAMBDA f : f.id # id)

\* addFile(record), its saveFile succeeding; record.order is a number
AddFile(record) ==
    LET nextOrder == IF record.order > 0 THEN record.order ELSE Len(files) + 1
        finalRecord == PdfFileRecord(record.id, record.name, nextOrder, record.file)
    IN  /\ files' = normalizeOrder(files \o <<finalRecord>>)
        /\ idb' = saveFile(idb, finalRecord)
        /\ UNCHANGED <<combineArg, merged>>

\* deleteFile(id), its deleteFileById and saveManyFiles succeeding
DeleteFile(id) ==
    /\ files' = normalizeOrder(FilterOutId(files, id))
    /\ idb' = saveManyFiles(deleteFileById(idb, id),
                            normalizeOrder(FilterOutId(files, id)))
    /\ UNCHANGED <<combineArg, merged>>

\* updateOrder(updatedFiles), its saveManyFiles succeeding
UpdateOrder(updatedFiles) ==
    /\ files' = normalizeOrder(updatedFiles)
    /\ idb' = saveManyFiles(idb, normalizeOrder(updatedFiles))
    /\ UNCHANGED <<combineArg, merged>>

\* a reload of the page, then loadFromDb (isInitialized is false again)
LoadFromDb ==
    /\ files' = normalizeOrder(getAllFilesSorted(idb))
    /\ UNCHANGED <<idb, combineArg, merged>>

NotMerged == [kind |-> "none", pages |-> <<>>, given |-> <<>>]

Merged(pages, given) == [kind |-> "blob", pages |-> pages, given |-> given]

\* the pages copied into the merged document, file after file
RECURSIVE CopyPages(_)
CopyPages(sorted) ==
    IF sorted = <<>> THEN <<>>
    ELSE sorted[1].file \o CopyPages(SubSeq(sorted, 2, Len(sorted)))

\* the files are merged as the array holds them
combinePdfs_unsorted(list) ==
    [pages |-> CopyPages(list), files |-> list]

\* combinePdfs(files): the pages of the Blob, and the array as the call leaves it
combinePdfs(list) ==
    [pages |-> CopyPages(StableSort(list, FALSE)), files |-> list]

\* a call combinePdfs(list) that resolves
CombinePdfs(list) ==
    /\ merged = NotMerged
    /\ merged' = Merged(combinePdfs(list).pages, list)
    /\ combineArg' = combinePdfs(list).files
    /\ UNCHANGED <<files, idb>>

\* CombineDialog: combinePdfs(files) on the store's list
CombineDialogMerge == files # <<>> /\ CombinePdfs(files)

\* pdfUtils called with the array drawn at the start
CombineCall == combineArg # <<>> /\ CombinePdfs(combineArg)

MaxFiles == 3      \* number of file ids, and longest drawn array

FileIdsC == 1..MaxFiles

\* the store and the database before any upload, no merge asked for
CombineIdle ==
    /\ files = <<>>
    /\ idb = [id \in FileIdsC |-> NoRecord]
    /\ combineArg = <<>>
    /\ merged = NotMerged

(***************************************************************************)
(* components/items-handler/ItemsHandler.tsx                               *)
(* A preview raster is [of, page, turns]: the page it shows and how many   *)
(* times rotateDataUrl90 has turned it. A suspended call is a record in    *)
(* `pending` that holds what its closure captured when it was called.      *)
(***************************************************************************)
MaxTurns == 1      \* most quarter turns a preview raster is given
MaxPending == 1    \* most calls suspended at a time

DataUrl(fileId, pageNumber, turns) == [of |-> fileId, page |-> pageNumber, turns |-> turns]

\* rotateDataUrl90(dataUrl), once the image has loaded
rotateDataUrl90(dataUrl) == [dataUrl EXCEPT !.turns = @ + 1]

\* a slot that carries its preview
UploadedPreview(fileId, pageNumber, rotationDeg, src) ==
    [empty |-> FALSE, sourceFileId |-> fileId, sourcePageNumber |-> pageNumber,
     rotationDeg |-> rotationDeg, src |-> src]

PdfPageImage(fileId, pageNumber, width, height, rotationDeg, dataUrl) ==
    [sourceFileId |-> fileId, pageNumber |-> pageNumber, sourcePageNumber |-> pageNumber,
     width |-> width, height |-> height, rotationDeg |-> rotationDeg, dataUrl |-> dataUrl]

NoPreview == [present |-> FALSE, rotationDeg |-> 0, dataUrl |-> DataUrl("", 0, 0)]
PreviewRecord(rotationDeg, dataUrl) ==
    [present |-> TRUE, rotationDeg |-> rotationDeg, dataUrl |-> dataUrl]

PreviewKeys == {"f1", "f2"} \X {1, 2}

\* an entry of the upload panel's list
UploadedPdf(fileId, pages) == [fileId |-> fileId, pageCount |-> Len(pages), pages |-> pages]

\* nothing uploaded, no preview stored, no call suspended
UiIdle ==
    /\ uploaded = <<>>
    /\ previews = [key \in PreviewKeys |-> NoPreview]
    /\ pending = {}

\* const slotsPerSheet = layout.rows * layout.cols, for the paper and item given
SlotsPerSheetOf(pp, im) == computeLayout(pp, im).items.v

slotsPerSheet == SlotsPerSheetOf(paper, image)

\* ((d % 360) + 360) % 360
normDeg(d) == JsRem(JsRem(d, 360) + 360, 360)

\* makeUploadedFromPage: the page has to be turned to lie like the slot
NeedsTurn(p, im) ==
    LET slotLandscape == im.width.v >= im.height.v
        baseRot == normDeg(Coalesce(p.rotationDeg, Fin(0)).v)
        pageLandscapeBeforeAuto ==
            IF baseRot = 90 \/ baseRot = 270 THEN p.height >= p.width
            ELSE p.width >= p.height
    IN  slotLandscape # pageLandscapeBeforeAuto

\* makeUploadedFromPage(p), for the item of the render that made the callback
makeUploadedFromPage(p, im) ==
    LET baseRot == normDeg(Coalesce(p.rotationDeg, Fin(0)).v)
    IN  IF NeedsTurn(p, im)
        THEN UploadedPreview(p.sourceFileId, p.sourcePageNumber,
                             Fin((baseRot + 90) % 360), rotateDataUrl90(p.dataUrl))
        ELSE UploadedPreview(p.sourceFileId, p.sourcePageNumber, Fin(baseRot), p.dataUrl)

\* Array(n).fill(undefined).map(() => ({ ...ui }))
Filled(ui, n) == [i \in 1..n |-> ui]

\* Array(n).fill(undefined)
Emptied(n) == [i \in 1..n |-> EmptySlot]

\* the other side's slots are overwritten as well
SetSide_bothSides(side, slots, selection) ==
    /\ frontSlots' = slots /\ backSlots' = slots
    /\ IF side = "front"
       THEN frontSelection' = selection /\ backSelection' = backSelection
       ELSE backSelection' = selection /\ frontSelection' = frontSelection

\* setFrontSlots + setFrontSelection, or their back counterparts
SetSide(side, slots, selection) ==
    IF side = "front"
    THEN /\ frontSlots' = slots /\ frontSelection' = selection
         /\ UNCHANGED <<backSlots, backSelection>>
    ELSE /\ backSlots' = slots /\ backSelection' = selection
         /\ UNCHANGED <<frontSlots, frontSelection>>

\* replicatePageToSide from its await on: ui is what makeUploadedFromPage
\* returned, n the slotsPerSheet its closure holds
Replicate(side, page, ui, n) ==
    /\ SetSide(side, Filled(ui, n), Selection(page.sourceFileId, page.pageNumber))
    /\ call' = [op |-> "replicatePageToSide", side |-> side, page |-> page, n |-> n]

\* the pages the upload panel offers
OfferedPages ==
    UNION {{uploaded[i].pages[j] : j \in 1..Len(uploaded[i].pages)} : i \in 1..Len(uploaded)}

\* handleApplyFront / handleApplyBack for a page that needs no turn: nothing
\* but the await of an already settled promise lies before the setters
ApplyDirect(side, page) ==
    /\ ~NeedsTurn(page, image)
    /\ Replicate(side, page, makeUploadedFromPage(page, image), slotsPerSheet)
    /\ UNCHANGED <<uploads, uiVars>>

\* handleApplyFront / handleApplyBack up to the await of rotateDataUrl90
ApplyStart(side, page) ==
    /\ NeedsTurn(page, image)
    /\ pending' = pending \cup {[kind |-> "apply", side |-> side, page |-> page,
                                 ui |-> makeUploadedFromPage(page, image),
                                 n |-> slotsPerSheet]}
    /\ UNCHANGED <<storeVars, uploaded, previews>>

\* the turned preview has arrived: the rest of replicatePageToSide
ApplyRotated(task) ==
    /\ task \in pending /\ task.kind = "apply"
    /\ Replicate(task.side, task.page, task.ui, task.n)
    /\ pending' = pending \ {task}
    /\ UNCHANGED <<uploads, uploaded, previews>>

\* the effect that follows a render in which slotsPerSheet is not what it was
EnsureCapacityEffect(before, now) ==
    IF before # now
    THEN /\ frontSlots' = padTo(frontSlots, now) /\ backSlots' = padTo(backSlots, now)
    ELSE UNCHANGED <<frontSlots, backSlots>>

\* setPaper(pp), the render and the ensureCapacity effect
SetPaper(pp) ==
    /\ paper' = pp /\ image' = image /\ layout' = layout
    /\ EnsureCapacityEffect(slotsPerSheet, SlotsPerSheetOf(pp, image))
    /\ UNCHANGED <<frontSelection, backSelection, uploads, call, uiVars>>

\* setImage(im), the render and the ensureCapacity effect
SetImage(im) ==
    /\ image' = im /\ paper' = paper /\ layout' = layout
    /\ EnsureCapacityEffect(slotsPerSheet, SlotsPerSheetOf(paper, im))
    /\ UNCHANGED <<frontSelection, backSelection, uploads, call, uiVars>>

\* clearFront / clearBack of ItemsHandler
ClearSide(side) ==
    /\ SetSide(side, Emptied(slotsPerSheet), NoSelection)
    /\ UNCHANGED <<uploads, call, uiVars>>

\* clearBoth of ItemsHandler
ClearBoth ==
    /\ frontSlots' = Emptied(slotsPerSheet) /\ backSlots' = Emptied(slotsPerSheet)
    /\ frontSelection' = NoSelection /\ backSelection' = NoSelection
    /\ UNCHANGED <<uploads, call, uiVars>>

SideSlots(side) == IF side = "front" THEN frontSlots ELSE backSlots

FilledIn(arr) == {i \in 1..Len(arr) : ~arr[i].empty}

\* what the callback rotateSheet passes to srcArr.map returns for a filled slot
RotatedItem(it) ==
    [it EXCEPT !.src = rotateDataUrl90(it.src),
               !.rotationDeg = Fin((Coalesce(it.rotationDeg, Fin(0)).v + 90) % 360)]

\* the array Promise.all resolves to
RotatedArray(srcArr) ==
    [i \in 1..Len(srcArr) |-> IF srcArr[i].empty THEN EmptySlot ELSE RotatedItem(srcArr[i])]

\* only the first filled slot is handed to rotateDataUrl90
RotateSheetStart_firstOnly(side) ==
    /\ FilledIn(SideSlots(side)) # {}
    /\ \A i \in FilledIn(SideSlots(side)) : SideSlots(side)[i].src.turns < MaxTurns
    /\ \A t \in pending : ~(t.kind = "rotate" /\ t.side = side /\ t.srcArr = SideSlots(side))
    /\ pending' = pending \cup
          {[kind |-> "rotate", side |-> side, srcArr |-> SideSlots(side),
            waiting |-> {CHOOSE i \in FilledIn(SideSlots(side)) :
                            \A j \in FilledIn(SideSlots(side)) : i <= j}]}
    /\ UNCHANGED <<storeVars, uploaded, previews>>

\* rotateSheet(side) up to its await: srcArr.map has called rotateDataUrl90
\* for every filled slot, and each of these calls waits for its image to load
RotateSheetStart(side) ==
    /\ FilledIn(SideSlots(side)) # {}
    /\ \A i \in FilledIn(SideSlots(side)) : SideSlots(side)[i].src.turns < MaxTurns
    /\ \A t \in pending : ~(t.kind = "rotate" /\ t.side = side /\ t.srcArr = SideSlots(side))
    /\ pending' = pending \cup {[kind |-> "rotate", side |-> side, srcArr |-> SideSlots(side),
                                 waiting |-> FilledIn(SideSlots(side))]}
    /\ UNCHANGED <<storeVars, uploaded, previews>>

\* one image of a rotateSheet call has loaded and its canvas is drawn
RotateItemDone(task, i) ==
    /\ task \in pending /\ task.kind = "rotate" /\ i \in task.waiting
    /\ pending' = (pending \ {task}) \cup {[task EXCEPT !.waiting = @ \ {i}]}
    /\ UNCHANGED <<storeVars, uploaded, previews>>

\* Promise.all has resolved: setFrontSlots / setBackSlots(rotated), and
\* persistSideRotations(side) runs up to its first await
RotateSheetSet(task) ==
    /\ task \in pending /\ task.kind = "rotate" /\ task.waiting = {}
    /\ IF task.side = "front"
       THEN frontSlots' = RotatedArray(task.srcArr) /\ backSlots' = backSlots
       ELSE backSlots' = RotatedArray(task.srcArr) /\ frontSlots' = frontSlots
    /\ call' = [op |-> "rotateSheet", side |-> task.side, persisted |-> FALSE]
    /\ pending' = (pending \ {task}) \cup
                     {[kind |-> "persist", side |-> task.side, slots |-> task.srcArr]}
    /\ UNCHANGED <<frontSelection, backSelection, uploads, uploaded, previews>>

\* the first slot of the array that shows the page of a key, or 0
FirstOf(slots, key) ==
    IF \E i \in FilledIn(slots) : <<slots[i].sourceFileId, slots[i].sourcePageNumber>> = key
    THEN CHOOSE i \in FilledIn(slots) :
            /\ <<slots[i].sourceFileId, slots[i].sourcePageNumber>> = key
            /\ \A j \in FilledIn(slots) :
                  <<slots[j].sourceFileId, slots[j].sourcePageNumber>> = key => i <= j
    ELSE 0

\* what the previews store holds once persistSideRotations has merged the
\* slots it was given into the records of each file and put them back
persistedPreviews(db, slots) ==
    [key \in DOMAIN db |->
        IF db[key].present /\ FirstOf(slots, key) # 0
        THEN PreviewRecord(normDeg(Coalesce(slots[FirstOf(slots, key)].rotationDeg, Fin(0)).v),
                           slots[FirstOf(slots, key)].src)
        ELSE db[key]]

\* the rest of persistSideRotations: loadPreviews and upsertPreviews per file
RotatePersist(task) ==
    /\ task \in pending /\ task.kind = "persist"
    /\ previews' = persistedPreviews(previews, task.slots)
    /\ call' = [op |-> "rotateSheet", side |-> task.side, persisted |-> TRUE,
                rotated |-> RotatedArray(task.slots)]
    /\ pending' = pending \ {task}
    /\ UNCHANGED <<frontSlots, backSlots, frontSelection, backSelection, uploads, uploaded>>

\* the rendered pages of a file: page 1 upright, page 2 lying
RenderedPages(fileId) ==
    <<PdfPageImage(fileId, 1, 2, 3, Fin(0), DataUrl(fileId, 1, 0)),
      PdfPageImage(fileId, 2, 4, 1, Fin(0), DataUrl(fileId, 2, 0))>>

\* the previews store after upsertPreviews(fileId, pages)
upsertPreviews(db, fileId, pages) ==
    [key \in DOMAIN db |->
        IF key[1] = fileId /\ key[2] \in 1..Len(pages)
        THEN PreviewRecord(normDeg(Coalesce(pages[key[2]].rotationDeg, Fin(0)).v),
                           pages[key[2]].dataUrl)
        ELSE db[key]]

(***************************************************************************)
(* components/items-handler/PdfUpload.tsx                                  *)
(***************************************************************************)
GLOBAL_PAGE_CAP == 2
MaxUploaded == 2      \* most files uploaded or being imported at a time

UploadIdList == <<"f1", "f2", "f3">>
UploadIds == {UploadIdList[i] : i \in 1..MaxUploaded}

RECURSIVE SumPageCount(_)
SumPageCount(list) ==
    IF list = <<>> THEN 0 ELSE Head(list).pageCount + SumPageCount(Tail(list))

\* const totalPages = useMemo(() => uploaded.reduce((s, u) => s + u.pageCount, 0))
totalPages == SumPageCount(uploaded)

UploadedIds == {uploaded[i].fileId : i \in 1..Len(uploaded)}

\* the file ids some slot, stored record, list entry or suspended call names
IdsInUse ==
    UploadedIds
      \cup {id \in UploadIds : uploads[id].present \/ \E p \in {1, 2} : previews[<<id, p>>].present}
      \cup {frontSlots[i].sourceFileId : i \in FilledIn(frontSlots)}
      \cup {backSlots[i].sourceFileId : i \in FilledIn(backSlots)}
      \cup {t.page.sourceFileId : t \in {u \in pending : u.kind = "apply"}}
      \cup {t.pages[1].sourceFileId : t \in {u \in pending : u.kind = "convert"}}

\* genId(): an id nothing names yet
genId == CHOOSE id \in UploadIds : id \notin IdsInUse

\* the slots and selections of the imposition store
StoreSides ==
    [frontSlots |-> frontSlots, backSlots |-> backSlots,
     frontSelection |-> frontSelection, backSelection |-> backSelection]

\* replicatePageToSide from its await on, as a change of the store
ReplicateIn(st, side, page, ui, n) ==
    IF side = "front"
    THEN [st EXCEPT !.frontSlots = Filled(ui, n),
                    !.frontSelection = Selection(page.sourceFileId, page.pageNumber)]
    ELSE [st EXCEPT !.backSlots = Filled(ui, n),
                    !.backSelection = Selection(page.sourceFileId, page.pageNumber)]

Settled(st) == [st |-> st, wait |-> "none"]
Waiting(st, side) == [st |-> st, wait |-> side]

\* handleAfterConvert from `if (duplex && pages.length >= 2)` on: the store it
\* leaves, and the side whose turned preview it waits for, if any
AfterConvertBack(st, pages, im, n, dup) ==
    IF dup /\ Len(pages) >= 2
    THEN IF NeedsTurn(pages[2], im) THEN Waiting(st, "back")
         ELSE Settled(ReplicateIn(st, "back", pages[2], makeUploadedFromPage(pages[2], im), n))
    ELSE Settled(st)

\* handleAfterConvert(pages, fileId)
handleAfterConvert(st, pages, im, n, dup) ==
    IF Len(pages) >= 1
    THEN IF NeedsTurn(pages[1], im) THEN Waiting(st, "front")
         ELSE AfterConvertBack(
                 ReplicateIn(st, "front", pages[1], makeUploadedFromPage(pages[1], im), n),
                 pages, im, n, dup)
    ELSE AfterConvertBack(st, pages, im, n, dup)

\* the suspended handleAfterConvert calls a result leaves behind
ConvertTasks(res, pages, im, n, dup) ==
    IF res.wait = "none" THEN {}
    ELSE {[kind |-> "convert", wait |-> res.wait, pages |-> pages, im |-> im, n |-> n,
           duplex |-> dup]}

SetStoreSides(st) ==
    /\ frontSlots' = st.frontSlots /\ backSlots' = st.backSlots
    /\ frontSelection' = st.frontSelection /\ backSelection' = st.backSelection

\* onDrop / onChange: files.forEach((f) => importOneFile(f)); every call runs
\* up to its await of renderPdfToImages, with the totalPages of this render.
\* A picked file is given by its number of pages.
PickFiles(picked) ==
    /\ picked # {}
    /\ pending' = pending \cup {[kind |-> "import", numPages |-> k, totalPages |-> totalPages] :
                                  k \in picked}
    /\ UNCHANGED <<storeVars, uploaded, previews>>

\* setFrontSelection / setBackSelection at the end of importOneFile
SelectImported(st, fileId, pages, dup) ==
    [st EXCEPT !.frontSelection = IF Len(pages) >= 1 THEN Selection(fileId, 1) ELSE @,
               !.backSelection = IF dup /\ Len(pages) >= 2 THEN Selection(fileId, 2) ELSE @]

\* importOneFile from the cap test on, for the id and the pages of the file
ImportStored(task, fileId, pages) ==
    IF task.totalPages + task.numPages > GLOBAL_PAGE_CAP
    THEN /\ call' = [op |-> "importOneFile", stored |-> FALSE]
         /\ pending' = pending \ {task}
         /\ UNCHANGED <<frontSlots, backSlots, frontSelection, backSelection, uploads,
                        uploaded, previews>>
    ELSE /\ uploads' = [uploads EXCEPT ![fileId] =
                           StoredPdf(SubSeq(<<PageMm(2, 3), PageMm(4, 1)>>, 1, task.numPages))]
         /\ previews' = upsertPreviews(previews, fileId, pages)
         /\ uploaded' = Append(uploaded, UploadedPdf(fileId, pages))
         /\ SetStoreSides(handleAfterConvert(SelectImported(StoreSides, fileId, pages, paper.duplex),
                                             pages, image, slotsPerSheet, paper.duplex).st)
         /\ pending' = (pending \ {task}) \cup
               ConvertTasks(handleAfterConvert(SelectImported(StoreSides, fileId, pages,
                                                              paper.duplex),
                                               pages, image, slotsPerSheet, paper.duplex),
                            pages, image, slotsPerSheet, paper.duplex)
         /\ call' = [op |-> "importOneFile", stored |-> TRUE]

\* renderPdfToImages has resolved: the rest of importOneFile
ImportFinish(task) ==
    /\ task \in pending /\ task.kind = "import"
    /\ UploadIds \ IdsInUse # {}
    /\ ImportStored(task, genId, SubSeq(RenderedPages(genId), 1, task.numPages))

\* the turned preview a handleAfterConvert call waited for has arrived
ConvertResumed(task) ==
    /\ task \in pending /\ task.kind = "convert"
    /\ IF task.wait = "front"
       THEN /\ SetStoreSides(AfterConvertBack(
                   ReplicateIn(StoreSides, "front", task.pages[1],
                               makeUploadedFromPage(task.pages[1], task.im), task.n),
                   task.pages, task.im, task.n, task.duplex).st)
            /\ pending' = (pending \ {task}) \cup
                  ConvertTasks(AfterConvertBack(StoreSides, task.pages, task.im, task.n,
                                                task.duplex),
                               task.pages, task.im, task.n, task.duplex)
       ELSE /\ SetStoreSides(ReplicateIn(StoreSides, "back", task.pages[2],
                                         makeUploadedFromPage(task.pages[2], task.im), task.n))
            /\ pending' = pending \ {task}
    /\ call' = [op |-> "handleAfterConvert", side |-> task.wait]
    /\ UNCHANGED <<uploads, uploaded, previews>>

\* removePreviews(fileId)
removePreviews(db, fileId) ==
    [key \in DOMAIN db |-> IF key[1] = fileId THEN NoPreview ELSE db[key]]

\* prev.filter((f) => f.fileId !== fileId)
WithoutFile(list, fileId) == SelectSeq(list, LAMBDA u : u.fileId # fileId)

\* setFrontSelection(null); setBackSelection(null)
ClearSelections ==
    frontSelection' = NoSelection /\ backSelection' = NoSelection

\* clearOneFile(fileId)
ClearOneFile(fileId) ==
    /\ fileId \in UploadedIds
    /\ uploads' = [uploads EXCEPT ![fileId] = NoPdf]
    /\ previews' = removePreviews(previews, fileId)
    /\ uploaded' = WithoutFile(uploaded, fileId)
    /\ frontSlots' = clearSlotsOf(frontSlots, fileId)
    /\ backSlots' = clearSlotsOf(backSlots, fileId)
    /\ ClearSelections
    /\ call' = [op |-> "clearOneFile", fileId |-> fileId]
    /\ UNCHANGED pending

\* clearSlotsOf for every id of a set
clearSlotsOfAll(arr, ids) ==
    [i \in 1..Len(arr) |->
        IF ~arr[i].empty /\ arr[i].sourceFileId \in ids THEN EmptySlot ELSE arr[i]]

\* clearAllFiles()
ClearAllFiles ==
    /\ uploaded # <<>>
    /\ uploads' = [id \in DOMAIN uploads |-> IF id \in UploadedIds THEN NoPdf ELSE uploads[id]]
    /\ previews' = [key \in DOMAIN previews |->
                       IF key[1] \in UploadedIds THEN NoPreview ELSE previews[key]]
    /\ uploaded' = <<>>
    /\ frontSlots' = clearSlotsOfAll(frontSlots, UploadedIds)
    /\ backSlots' = clearSlotsOfAll(backSlots, UploadedIds)
    /\ ClearSelections
    /\ call' = [op |-> "clearAllFiles"]
    /\ UNCHANGED pending

(***************************************************************************)
(* Inputs of the layout calculator                                         *)
(***************************************************************************)
MaxMm == 6        \* largest paper width/height drawn
MaxItem == 3      \* largest item width/height drawn
MaxGap == 1       \* largest inter-item gap drawn
SmallMm == {0, 1} \* paper margins and item gutters drawn

MkPaper(w, h, mt, mr, mb, ml, cut, gx, gy) ==
    [width |-> w, height |-> h,
     margin |-> [top |-> mt, right |-> mr, bottom |-> mb, left |-> ml],
     gap |-> [horizontal |-> gx, vertical |-> gy],
     duplex |-> FALSE, cutMarkLengthMm |-> cut]

MkImage(w, h, gt, gr, gb, gl) ==
    [width |-> w, height |-> h,
     margin |-> [top |-> gt, right |-> gr, bottom |-> gb, left |-> gl]]

\* defaultPaper and defaultImage of the imposition store
defaultPaper ==
    MkPaper(Fin(210), Fin(297), Fin(5), Fin(5), Fin(5), Fin(5), Fin(6), Fin(0), Fin(0))

defaultImage == MkImage(Fin(57), Fin(92), Fin(0), Fin(0), Fin(0), Fin(0))

FinSet(S) == {Fin(n) : n \in S}
CutChoices == {Undefined} \cup FinSet(SmallMm)
OtherAxisItem == FinSet({0, 2, MaxMm + 1})

\* every combination of the horizontal fields, three settings of the vertical ones
XInputs ==
    {[paper |-> MkPaper(w, Fin(MaxMm), Fin(0), mr, Fin(0), ml, cut, gx, Fin(0)),
      image |-> MkImage(iw, ih, Fin(0), gr, Fin(0), gl)] :
        w \in FinSet(0..MaxMm), ml \in FinSet(SmallMm), mr \in FinSet(SmallMm),
        cut \in CutChoices, gx \in FinSet(0..MaxGap), iw \in FinSet(0..MaxItem),
        gl \in FinSet(SmallMm), gr \in FinSet(SmallMm), ih \in OtherAxisItem}

\* every combination of the vertical fields, three settings of the horizontal ones
YInputs ==
    {[paper |-> MkPaper(Fin(MaxMm), h, mt, Fin(0), mb, Fin(0), cut, Fin(0), gy),
      image |-> MkImage(iw, ih, gt, Fin(0), gb, Fin(0))] :
        h \in FinSet(0..MaxMm), mt \in FinSet(SmallMm), mb \in FinSet(SmallMm),
        cut \in CutChoices, gy \in FinSet(0..MaxGap), ih \in FinSet(0..MaxItem),
        gt \in FinSet(SmallMm), gb \in FinSet(SmallMm), iw \in OtherAxisItem}

Fields ==
    {"width", "height", "margin.top", "margin.right", "margin.bottom", "margin.left",
     "cutMarkLengthMm", "gap.horizontal", "gap.vertical",
     "image.width", "image.height", "image.margin.top", "image.margin.right",
     "image.margin.bottom", "image.margin.left"}

FieldValue(p, im, f) ==
    CASE f = "width" -> p.width
      [] f = "height" -> p.height
      [] f = "margin.top" -> p.margin.top
      [] f = "margin.right" -> p.margin.right
      [] f = "margin.bottom" -> p.margin.bottom
      [] f = "margin.left" -> p.margin.left
      [] f = "cutMarkLengthMm" -> p.cutMarkLengthMm
      [] f = "gap.horizontal" -> p.gap.horizontal
      [] f = "gap.vertical" -> p.gap.vertical
      [] f = "image.width" -> im.width
      [] f = "image.height" -> im.height
      [] f = "image.margin.top" -> im.margin.top
      [] f = "image.margin.right" -> im.margin.right
      [] f = "image.margin.bottom" -> im.margin.bottom
      [] f = "image.margin.left" -> im.margin.left

\* the configuration with field f set to v
WithField(p, im, f, v) ==
    CASE f = "width" -> [paper |-> [p EXCEPT !.width = v], image |-> im]
      [] f = "height" -> [paper |-> [p EXCEPT !.height = v], image |-> im]
      [] f = "margin.top" -> [paper |-> [p EXCEPT !.margin.top = v], image |-> im]
      [] f = "margin.right" -> [paper |-> [p EXCEPT !.margin.right = v], image |-> im]
      [] f = "margin.bottom" -> [paper |-> [p EXCEPT !.margin.bottom = v], image |-> im]
      [] f = "margin.left" -> [paper |-> [p EXCEPT !.margin.left = v], image |-> im]
      [] f = "cutMarkLengthMm" -> [paper |-> [p EXCEPT !.cutMarkLengthMm = v], image |-> im]
      [] f = "gap.horizontal" -> [paper |-> [p EXCEPT !.gap.horizontal = v], image |-> im]
      [] f = "gap.vertical" -> [paper |-> [p EXCEPT !.gap.vertical = v], image |-> im]
      [] f = "image.width" -> [paper |-> p, image |-> [im EXCEPT !.width = v]]
      [] f = "image.height" -> [paper |-> p, image |-> [im EXCEPT !.height = v]]
      [] f = "image.margin.top" -> [paper |-> p, image |-> [im EXCEPT !.margin.top = v]]
      [] f = "image.margin.right" -> [paper |-> p, image |-> [im EXCEPT !.margin.right = v]]
      [] f = "image.margin.bottom" -> [paper |-> p, image |-> [im EXCEPT !.margin.bottom = v]]
      [] f = "image.margin.left" -> [paper |-> p, image |-> [im EXCEPT !.margin.left = v]]

\* negative and non-finite values
BadValues == {Fin(-1), Fin(-3), NaN, PosInf, NegInf}

\* a configuration as a function of the field names, and back
FromFlat(fl) ==
    [paper |-> MkPaper(fl["width"], fl["height"], fl["margin.top"], fl["margin.right"],
                       fl["margin.bottom"], fl["margin.left"], fl["cutMarkLengthMm"],
                       fl["gap.horizontal"], fl["gap.vertical"]),
     image |-> MkImage(fl["image.width"], fl["image.height"], fl["image.margin.top"],
                       fl["image.margin.right"], fl["image.margin.bottom"],
                       fl["image.margin.left"])]

PaperMarginFields == {"margin.top", "margin.right", "margin.bottom", "margin.left"}
GutterFields ==
    {"image.margin.top", "image.margin.right", "image.margin.bottom", "image.margin.left"}

BaseFlat ==
    {[f \in Fields |->
        CASE f \in {"width", "height"} -> Fin(MaxMm)
          [] f \in PaperMarginFields -> m
          [] f = "cutMarkLengthMm" -> cut
          [] f \in {"gap.horizontal", "gap.vertical"} -> g
          [] f \in {"image.width", "image.height"} -> Fin(sz)
          [] OTHER -> gut] :
        m \in FinSet(SmallMm), cut \in FinSet(SmallMm), g \in FinSet(0..MaxGap),
        sz \in 1..2, gut \in FinSet(SmallMm)}

\* a well-formed configuration with one field negative or non-finite
BadInputs ==
    {FromFlat([fl EXCEPT ![f] = v]) : fl \in BaseFlat, f \in Fields, v \in BadValues}

DefaultInputs == {[paper |-> defaultPaper, image |-> defaultImage]}

(***************************************************************************)
(* SpecLayout: computeLayout applied to a drawn configuration              *)
(***************************************************************************)
InitLayout ==
    /\ \/ \E cfg \in XInputs : paper = cfg.paper /\ image = cfg.image
       \/ \E cfg \in YInputs : paper = cfg.paper /\ image = cfg.image
       \/ \E cfg \in BadInputs : paper = cfg.paper /\ image = cfg.image
       \/ \E cfg \in DefaultInputs : paper = cfg.paper /\ image = cfg.image
    /\ layout = <<>>
    /\ ExportIdle /\ StoreIdle /\ BuildIdle /\ CombineIdle /\ UiIdle

ComputeLayout ==
    /\ layout = <<>>
    /\ layout' = <<computeLayout(paper, image)>>
    /\ UNCHANGED <<paper, image>>
    /\ UNCHANGED <<exportVars, storeVars, buildVars, combineVars, uiVars>>

NextLayout == ComputeLayout

SpecLayout == InitLayout /\ [][NextLayout]_vars

(***************************************************************************)
(* Inputs of the exporter                                                  *)
(***************************************************************************)
MaxGrid == 2      \* largest rows and cols of a drawn plan
MaxTrim == 2      \* largest trim width/height (mm) of a drawn plan

Margin4(t, rt, b, l) == [top |-> t, right |-> rt, bottom |-> b, left |-> l]

NoMeta == [date |-> "", customerName |-> "", description |-> "", displayMeta |-> FALSE]

MkPlan(pw, ph, mg, tw, th, bleed, defRot, rows, cols, cutLen, offset, slots, meta) ==
    [paper |-> [widthMm |-> pw, heightMm |-> ph, marginMm |-> mg],
     slot |-> [trimSizeMm |-> [width |-> tw, height |-> th], bleedMm |-> bleed,
               defaultRotateDeg |-> defRot],
     layout |-> [rows |-> rows, cols |-> cols, auto |-> FALSE],
     marks |-> [cutLenMm |-> cutLen, cutStrokePt |-> 1, offsetMm |-> offset],
     color |-> [keepCMYK |-> TRUE, markColor |-> "K100"],
     slots |-> slots,
     meta |-> meta]

\* source documents: page size in page units, number of pages, readable or not
SrcDoc(ok, pageCount, wMm, hMm) ==
    [ok |-> ok, pageCount |-> pageCount, w |-> mmToPt(wMm), h |-> mmToPt(hMm)]

SrcSmall == SrcDoc(TRUE, 1, 1, 2)
SrcEqual == SrcDoc(TRUE, 1, 3, 4)
SrcLarge == SrcDoc(TRUE, 2, 6, 5)
SrcBroken == SrcDoc(FALSE, 0, 0, 0)

StdSlot == SlotInput(SrcEqual, 0, Undefined)
RotChoices == {Undefined, Fin(0), Fin(90), Fin(180), Fin(270), Fin(45)}

SlotChoices ==
    {NullSlot}
        \cup {SlotInput(src, 0, rot) : src \in {SrcSmall, SrcEqual, SrcLarge}, rot \in RotChoices}
        \cup {SlotInput(SrcLarge, 1, Fin(90)), SlotInput(SrcEqual, 1, Undefined),
              SlotInput(SrcLarge, 2, Fin(0)), SlotInput(SrcEqual, -1, Undefined),
              SlotInput(SrcBroken, 0, Undefined)}

\* n slots, all `base` except the i-th, which is `s`
OneSpecial(n, base, i, s) == [j \in 1..n |-> IF j = i THEN s ELSE base]
Uniform(n, base) == [j \in 1..n |-> base]

StdPaperMargin == Margin4(1, 2, 1, 2)

\* every trim size and bleed on every grid, cells all empty or all filled
GeomPlans ==
    {MkPlan(16, 16, StdPaperMargin, tw, th, Margin4(bt, br, bb, bl), Undefined,
            rows, cols, 1, offset, Uniform(rows * cols, base), NoMeta) :
        tw \in 0..MaxTrim, th \in 0..MaxTrim,
        bt \in {0, 1}, br \in {0, 1}, bb \in {0, 1}, bl \in {0, 1},
        rows \in 0..MaxGrid, cols \in 0..MaxGrid,
        offset \in {Undefined, Fin(1)}, base \in {NullSlot, StdSlot}}

\* every kind of slot in every position of a grid of 3 x 4 mm cells
SlotPlans ==
    UNION {{MkPlan(16, 16, StdPaperMargin, 2, 3, Margin4(0, 0, 1, 1), defRot,
                   rows, cols, 1, Fin(0), OneSpecial(rows * cols, base, i, s), NoMeta) :
                i \in 1..(rows * cols), s \in SlotChoices,
                defRot \in {Undefined, Fin(90)}, base \in {NullSlot, StdSlot}} :
           rows \in 1..MaxGrid, cols \in 1..MaxGrid}

\* plans whose slots array is longer or shorter than rows*cols
MismatchPlans ==
    UNION {{MkPlan(16, 16, StdPaperMargin, 2, 3, Margin4(0, 0, 1, 1), Undefined,
                   rows, cols, 1, Fin(0), Uniform(n, base), NoMeta) :
                n \in (0..(MaxGrid * MaxGrid + 1)) \ {rows * cols},
                base \in {NullSlot, StdSlot}} :
           rows \in 0..MaxGrid, cols \in 0..MaxGrid}

MetaChoices ==
    {[date |-> d, customerName |-> n, description |-> desc, displayMeta |-> disp] :
        d \in {"", "2024-01-01"}, n \in {"", "ACME"}, desc \in {"", "tags"},
        disp \in BOOLEAN}

MetaPlans ==
    {MkPlan(16, 16, StdPaperMargin, 2, 3, Margin4(0, 0, 1, 1), Undefined,
            rows, 1, 1, Fin(0), Uniform(rows, base), meta) :
        rows \in 0..1, base \in {NullSlot, StdSlot}, meta \in MetaChoices}

\* unequal paper margins and every cut length around grids of 2 x 1 mm cells
MarginPlans ==
    {MkPlan(16, 16, Margin4(1, mr, mb, ml), 2, 1, Margin4(bt, br, bb, bl), Undefined,
            rows, cols, cutLen, Fin(0), Uniform(rows * cols, base), NoMeta) :
        mr \in {0, 2}, mb \in {1, 2}, ml \in {1, 3}, cutLen \in {0, 1, 2},
        bt \in {0, 1}, br \in {0, 1}, bb \in {0, 1}, bl \in {0, 1},
        rows \in 1..MaxGrid, cols \in 1..MaxGrid, base \in {NullSlot, StdSlot}}

(***************************************************************************)
(* SpecExport: exportNUp called with a drawn plan                          *)
(***************************************************************************)
LayoutIdle == paper = defaultPaper /\ image = defaultImage /\ layout = <<>>

ExportCalled(pl) ==
    /\ plan = pl /\ epc = "start" /\ doc = NoDoc /\ ops = <<>> /\ trims = <<>>
    /\ r = 0 /\ c = 0 /\ cell = 0 /\ placed = <<>> /\ result = NoResult

InitExport ==
    /\ LayoutIdle /\ StoreIdle /\ BuildIdle /\ CombineIdle /\ UiIdle
    /\ \/ \E pl \in GeomPlans : ExportCalled(pl)
       \/ \E pl \in SlotPlans : ExportCalled(pl)
       \/ \E pl \in MismatchPlans : ExportCalled(pl)
       \/ \E pl \in MetaPlans : ExportCalled(pl)
       \/ \E pl \in MarginPlans : ExportCalled(pl)

NextExport ==
    \/ ExportValidate /\ UNCHANGED <<layoutVars, storeVars, buildVars, combineVars, uiVars>>
    \/ ExportCreateDoc /\ UNCHANGED <<layoutVars, storeVars, buildVars, combineVars, uiVars>>
    \/ ExportNextRow /\ UNCHANGED <<layoutVars, storeVars, buildVars, combineVars, uiVars>>
    \/ ExportCellEmpty /\ UNCHANGED <<layoutVars, storeVars, buildVars, combineVars, uiVars>>
    \/ ExportCellPlace /\ UNCHANGED <<layoutVars, storeVars, buildVars, combineVars, uiVars>>
    \/ PlaceEmbedded /\ UNCHANGED <<layoutVars, storeVars, buildVars, combineVars, uiVars>>
    \/ PlaceFailed /\ UNCHANGED <<layoutVars, storeVars, buildVars, combineVars, uiVars>>
    \/ ExportFinish /\ UNCHANGED <<layoutVars, storeVars, buildVars, combineVars, uiVars>>
    \/ ExportSave /\ UNCHANGED <<layoutVars, storeVars, buildVars, combineVars, uiVars>>

SpecExport == InitExport /\ [][NextExport]_vars

(***************************************************************************)
(* SpecBuild: buildCurrentNUpBytes on a drawn store, and exportNUp called  *)
(* with plans whose cells name any kind of source                          *)
(***************************************************************************)
FileIds == {"f1", "f2"}

\* f1 is a stored PDF of two pages of different sizes, f2 has no stored PDF
UploadChoices ==
    {[f \in FileIds |-> IF f = "f1" THEN StoredPdf(<<PageMm(2, 3), PageMm(4, 1)>>) ELSE NoPdf],
     [f \in FileIds |-> IF f = "f1" THEN StoredPdf(<<PageMm(2, 3), UnembeddablePageMm(4, 1)>>)
                                   ELSE NoPdf]}

SelectionChoices ==
    {NoSelection, Selection("f1", 1), Selection("f1", 2), Selection("f1", 3),
     Selection("f1", 0), Selection("f2", 1)}

\* papers of 8 x 8 mm with and without a cut-mark length, simplex and duplex
BuildPapers ==
    {[MkPaper(Fin(8), Fin(8), Fin(1), Fin(1), Fin(1), Fin(1), cut, Fin(0), Fin(0))
        EXCEPT !.duplex = d] : cut \in {Undefined, Fin(1)}, d \in BOOLEAN}

BuildImages ==
    {MkImage(Fin(2), Fin(3), Fin(0), Fin(0), Fin(0), Fin(0)),
     MkImage(Fin(2), Fin(2), Fin(1), Fin(0), Fin(0), Fin(1)),
     MkImage(Fin(7), Fin(2), Fin(0), Fin(0), Fin(0), Fin(0))}

SlotArrayChoices ==
    {<<>>, <<EmptySlot>>, <<UploadedImage("f1", 1, Fin(0))>>,
     <<UploadedImage("f1", 1, Fin(90)), UploadedImage("f1", 1, Fin(90))>>,
     <<UploadedImage("f1", 2, Fin(-90))>>}

InitBuild ==
    \/ /\ paper \in BuildPapers /\ image \in BuildImages /\ layout = <<>>
       /\ frontSlots \in SlotArrayChoices /\ backSlots \in SlotArrayChoices
       /\ frontSelection \in SelectionChoices /\ backSelection \in SelectionChoices
       /\ uploads \in UploadChoices /\ call = NoCall
       /\ ExportIdle
       /\ bpc = "start" /\ frontPlan = NoPlanYet /\ backPlan = NoPlanYet
       /\ parts = <<>> /\ out = NoResult
       /\ CombineIdle /\ UiIdle
    \/ /\ LayoutIdle /\ StoreIdle /\ BuildIdle /\ CombineIdle /\ UiIdle
       /\ \E pl \in SlotPlans : ExportCalled(pl)

NextBuild ==
    \/ BuildMapFront /\ UNCHANGED <<layoutVars, storeVars, exportVars, combineVars, uiVars>>
    \/ BuildMapBack /\ UNCHANGED <<layoutVars, storeVars, exportVars, combineVars, uiVars>>
    \/ BuildExportFront /\ UNCHANGED <<layoutVars, storeVars, combineVars, uiVars>>
    \/ BuildFrontSettled /\ UNCHANGED <<layoutVars, storeVars, combineVars, uiVars>>
    \/ BuildExportBack /\ UNCHANGED <<layoutVars, storeVars, combineVars, uiVars>>
    \/ BuildBackSettled /\ UNCHANGED <<layoutVars, storeVars, combineVars, uiVars>>
    \/ BuildMerge /\ UNCHANGED <<layoutVars, storeVars, exportVars, combineVars, uiVars>>
    \/ ExportValidate /\ UNCHANGED <<layoutVars, storeVars, buildVars, combineVars, uiVars>>
    \/ ExportCreateDoc /\ UNCHANGED <<layoutVars, storeVars, buildVars, combineVars, uiVars>>
    \/ ExportNextRow /\ UNCHANGED <<layoutVars, storeVars, buildVars, combineVars, uiVars>>
    \/ ExportCellEmpty /\ UNCHANGED <<layoutVars, storeVars, buildVars, combineVars, uiVars>>
    \/ ExportCellPlace /\ UNCHANGED <<layoutVars, storeVars, buildVars, combineVars, uiVars>>
    \/ PlaceEmbedded /\ UNCHANGED <<layoutVars, storeVars, buildVars, combineVars, uiVars>>
    \/ PlaceFailed /\ UNCHANGED <<layoutVars, storeVars, buildVars, combineVars, uiVars>>
    \/ ExportFinish /\ UNCHANGED <<layoutVars, storeVars, buildVars, combineVars, uiVars>>
    \/ ExportSave /\ UNCHANGED <<layoutVars, storeVars, buildVars, combineVars, uiVars>>

SpecBuild == InitBuild /\ [][NextBuild]_vars

(***************************************************************************)
(* SpecStore: calls on the imposition store, from drawn slot arrays        *)
(***************************************************************************)
MaxCapacity == 3      \* largest slot count asked for and longest drawn slot array

SlotValues == {EmptySlot, UploadedImage("f1", 1, Fin(0)), UploadedImage("f2", 2, Fin(90))}

\* every slot array of at most n slots
SlotArraysUpTo(n) == UNION {[1..len -> SlotValues] : len \in 0..n}

CapacityInputs == (0 - 1)..MaxCapacity

InitStore ==
    /\ LayoutIdle /\ ExportIdle /\ BuildIdle /\ CombineIdle /\ UiIdle
    /\ frontSlots \in SlotArraysUpTo(MaxCapacity)
    /\ backSlots \in SlotArraysUpTo(MaxCapacity - 1)
    /\ frontSelection \in {NoSelection, Selection("f1", 1)}
    /\ backSelection \in {NoSelection, Selection("f2", 2)}
    /\ uploads = [f \in {"f1", "f2"} |-> NoPdf]
    /\ call = NoCall

NextStore ==
    \/ \E n \in CapacityInputs :
          EnsureCapacity(n) /\ UNCHANGED <<layoutVars, exportVars, buildVars, combineVars, uiVars>>
    \/ \E fileId \in {"f1", "f2", "f3"} :
          ClearByFileId(fileId) /\ UNCHANGED <<layoutVars, exportVars, buildVars, combineVars, uiVars>>

SpecStore == InitStore /\ [][NextStore]_vars

(***************************************************************************)
(* SpecSheet: the controls of ItemsHandler and the paper / item forms, on  *)
(* a sheet whose file f1 has been imported and both sides cleared          *)
(***************************************************************************)
SheetPaper == MkPaper(Fin(8), Fin(8), Fin(1), Fin(1), Fin(1), Fin(1), Fin(1), Fin(0), Fin(0))

\* the same sheet with a wider left margin
SheetPaperWideMargin ==
    MkPaper(Fin(8), Fin(8), Fin(1), Fin(1), Fin(1), Fin(2), Fin(1), Fin(0), Fin(0))

SheetPapers == {SheetPaper, SheetPaperWideMargin}

\* an upright item and a lying one
SheetImages ==
    {MkImage(Fin(2), Fin(3), Fin(0), Fin(0), Fin(0), Fin(0)),
     MkImage(Fin(4), Fin(3), Fin(0), Fin(0), Fin(0), Fin(0))}

Sides == {"front", "back"}

InitSheet ==
    /\ ExportIdle /\ BuildIdle /\ CombineIdle
    /\ paper = SheetPaper /\ image \in SheetImages /\ layout = <<>>
    /\ frontSlots = Emptied(slotsPerSheet) /\ backSlots = Emptied(slotsPerSheet)
    /\ frontSelection = NoSelection /\ backSelection = NoSelection
    /\ uploads = [f \in FileIds |-> IF f = "f1" THEN StoredPdf(<<PageMm(2, 3), PageMm(4, 1)>>)
                                    ELSE NoPdf]
    /\ call = NoCall
    /\ uploaded = <<UploadedPdf("f1", RenderedPages("f1"))>>
    /\ previews = upsertPreviews([key \in PreviewKeys |-> NoPreview], "f1", RenderedPages("f1"))
    /\ pending = {}

NextSheet ==
    \/ \E pp \in SheetPapers : SetPaper(pp) /\ UNCHANGED <<exportVars, buildVars, combineVars>>
    \/ \E im \in SheetImages : SetImage(im) /\ UNCHANGED <<exportVars, buildVars, combineVars>>
    \/ \E side \in Sides, page \in OfferedPages :
          ApplyDirect(side, page) /\ UNCHANGED <<layoutVars, exportVars, buildVars, combineVars>>
    \/ \E side \in Sides, page \in OfferedPages :
          /\ Cardinality(pending) < MaxPending
          /\ ApplyStart(side, page)
          /\ UNCHANGED <<layoutVars, exportVars, buildVars, combineVars>>
    \/ \E task \in pending :
          ApplyRotated(task) /\ UNCHANGED <<layoutVars, exportVars, buildVars, combineVars>>
    \/ \E side \in Sides :
          ClearSide(side) /\ UNCHANGED <<layoutVars, exportVars, buildVars, combineVars>>
    \/ ClearBoth /\ UNCHANGED <<layoutVars, exportVars, buildVars, combineVars>>

SpecSheet == InitSheet /\ [][NextSheet]_vars

(***************************************************************************)
(* SpecRotate: the apply and rotate controls of ItemsHandler for a fixed   *)
(* paper and item                                                          *)
(***************************************************************************)
NextRotate ==
    \/ \E side \in Sides, page \in OfferedPages :
          ApplyDirect(side, page) /\ UNCHANGED <<layoutVars, exportVars, buildVars, combineVars>>
    \/ \E side \in Sides, page \in OfferedPages :
          /\ Cardinality(pending) < MaxPending
          /\ ApplyStart(side, page)
          /\ UNCHANGED <<layoutVars, exportVars, buildVars, combineVars>>
    \/ \E task \in pending :
          ApplyRotated(task) /\ UNCHANGED <<layoutVars, exportVars, buildVars, combineVars>>
    \/ \E side \in Sides :
          /\ Cardinality(pending) < MaxPending
          /\ RotateSheetStart(side)
          /\ UNCHANGED <<layoutVars, exportVars, buildVars, combineVars>>
    \/ \E task \in {t \in pending : t.kind = "rotate"} : \E i \in task.waiting :
          RotateItemDone(task, i) /\ UNCHANGED <<layoutVars, exportVars, buildVars, combineVars>>
    \/ \E task \in pending :
          RotateSheetSet(task) /\ UNCHANGED <<layoutVars, exportVars, buildVars, combineVars>>
    \/ \E task \in pending :
          RotatePersist(task) /\ UNCHANGED <<layoutVars, exportVars, buildVars, combineVars>>

SpecRotate == InitSheet /\ [][NextRotate]_vars

(***************************************************************************)
(* SpecUpload: the upload panel and the apply and clear controls, from an  *)
(* empty sheet, for a fixed paper and item                                 *)
(***************************************************************************)
\* the files a gesture can pick: one of one page, one of two pages
PickedPageCounts == {1, 2}

InitUpload ==
    /\ ExportIdle /\ BuildIdle /\ CombineIdle
    /\ paper \in {[SheetPaper EXCEPT !.duplex = d] : d \in BOOLEAN}
    /\ image \in SheetImages /\ layout = <<>>
    /\ frontSlots = Emptied(slotsPerSheet) /\ backSlots = Emptied(slotsPerSheet)
    /\ frontSelection = NoSelection /\ backSelection = NoSelection
    /\ uploads = [id \in UploadIds |-> NoPdf]
    /\ call = NoCall
    /\ uploaded = <<>>
    /\ previews = [key \in UploadIds \X {1, 2} |-> NoPreview]
    /\ pending = {}

NextUpload ==
    \/ \E picked \in SUBSET PickedPageCounts :
          /\ pending = {}
          /\ Len(uploaded) + Cardinality(picked) <= MaxUploaded
          /\ PickFiles(picked)
          /\ UNCHANGED <<layoutVars, exportVars, buildVars, combineVars>>
    \/ \E task \in pending :
          ImportFinish(task) /\ UNCHANGED <<layoutVars, exportVars, buildVars, combineVars>>
    \/ \E task \in pending :
          ConvertResumed(task) /\ UNCHANGED <<layoutVars, exportVars, buildVars, combineVars>>
    \/ \E fileId \in UploadIds :
          ClearOneFile(fileId) /\ UNCHANGED <<layoutVars, exportVars, buildVars, combineVars>>
    \/ ClearAllFiles /\ UNCHANGED <<layoutVars, exportVars, buildVars, combineVars>>
    \/ \E side \in Sides, page \in OfferedPages :
          ApplyDirect(side, page) /\ UNCHANGED <<layoutVars, exportVars, buildVars, combineVars>>
    \/ \E side \in Sides, page \in OfferedPages :
          /\ Cardinality(pending) < MaxPending
          /\ ApplyStart(side, page)
          /\ UNCHANGED <<layoutVars, exportVars, buildVars, combineVars>>
    \/ \E task \in pending :
          ApplyRotated(task) /\ UNCHANGED <<layoutVars, exportVars, buildVars, combineVars>>
    \/ \E side \in Sides :
          ClearSide(side) /\ UNCHANGED <<layoutVars, exportVars, buildVars, combineVars>>
    \/ ClearBoth /\ UNCHANGED <<layoutVars, exportVars, buildVars, combineVars>>

SpecUpload == InitUpload /\ [][NextUpload]_vars

(***************************************************************************)
(* SpecCombine: calls on the combine-PDF store from an empty store and     *)
(* database, or combinePdfs on a drawn array                               *)
(***************************************************************************)
MaxOrder == 3      \* largest order value passed in

\* the name of the file behind an id: files 1 and 3 have the same name, which
\* sorts behind the name of file 2
NameOf(id) == IF id = 2 THEN 1 ELSE 2

\* the PDF behind an id: file 2 has two pages, the others one
FileOf(id) == [n \in 1..(IF id = 2 THEN 2 ELSE 1) |-> [of |-> id, page |-> n]]

\* arrays of records with distinct ids, any orders and any arrangement
DrawnArrays ==
    {a \in UNION {[1..n -> {PdfFileRecord(id, NameOf(id), o, FileOf(id)) :
                              id \in FileIdsC, o \in 1..MaxOrder}] : n \in 1..MaxFiles} :
        \A i, j \in 1..Len(a) : i # j => a[i].id # a[j].id}

\* the rearrangements the sort controls and the drag-and-drop list pass:
\* the current files in a new arrangement, order set to index + 1
Rearranged(list) ==
    {Renumber([i \in 1..Len(list) |-> list[p[i]]]) :
        p \in {q \in [1..Len(list) -> 1..Len(list)] :
                  \A i, j \in 1..Len(list) : i # j => q[i] # q[j]}}

InitCombine ==
    /\ LayoutIdle /\ ExportIdle /\ StoreIdle /\ BuildIdle /\ UiIdle
    /\ files = <<>>
    /\ idb = [id \in FileIdsC |-> NoRecord]
    /\ merged = NotMerged
    /\ combineArg \in DrawnArrays \cup {<<>>}

NextCombine ==
    \/ /\ combineArg = <<>> /\ merged = NotMerged
       /\ \E id \in FileIdsC, order \in 0..MaxOrder :
             /\ \A i \in 1..Len(files) : files[i].id # id
             /\ AddFile(PdfFileRecord(id, NameOf(id), order, FileOf(id)))
       /\ UNCHANGED <<layoutVars, exportVars, storeVars, buildVars, uiVars>>
    \/ /\ combineArg = <<>> /\ merged = NotMerged
       /\ \E id \in FileIdsC : DeleteFile(id)
       /\ UNCHANGED <<layoutVars, exportVars, storeVars, buildVars, uiVars>>
    \/ /\ combineArg = <<>> /\ merged = NotMerged
       /\ \E updatedFiles \in Rearranged(files) : UpdateOrder(updatedFiles)
       /\ UNCHANGED <<layoutVars, exportVars, storeVars, buildVars, uiVars>>
    \/ /\ combineArg = <<>> /\ merged = NotMerged
       /\ LoadFromDb
       /\ UNCHANGED <<layoutVars, exportVars, storeVars, buildVars, uiVars>>
    \/ /\ combineArg = <<>>
       /\ CombineDialogMerge
       /\ UNCHANGED <<layoutVars, exportVars, storeVars, buildVars, uiVars>>
    \/ /\ files = <<>>
       /\ CombineCall
       /\ UNCHANGED <<layoutVars, exportVars, storeVars, buildVars, uiVars>>

SpecCombine == InitCombine /\ [][NextCombine]_vars

(***************************************************************************)
(* Properties of the layout calculator (checked under SpecLayout)          *)
(***************************************************************************)
Computed == layout # <<>>
NonNeg(n) == n.k = "fin" /\ n.v >= 0
Max0(i) == IF i > 0 THEN i ELSE 0

\* every numeric field is finite and >= 0 (the optional cut-mark length may be absent)
InputsNonNegative ==
    \A f \in Fields :
        \/ NonNeg(FieldValue(paper, image, f))
        \/ f = "cutMarkLengthMm" /\ FieldValue(paper, image, f) = Undefined

\* the inputs as plain integers, for non-negative configurations
CutInt == IF paper.cutMarkLengthMm = Undefined THEN 0 ELSE paper.cutMarkLengthMm.v
RefPrintedW == Max0(paper.width.v - paper.margin.left.v - paper.margin.right.v - 2 * CutInt)
RefPrintedH == Max0(paper.height.v - paper.margin.top.v - paper.margin.bottom.v - 2 * CutInt)
RefTagW == image.width.v + image.margin.left.v + image.margin.right.v
RefTagH == image.height.v + image.margin.top.v + image.margin.bottom.v

\* n items and the n-1 gaps between them fit into the printed length
Fits(n, tag, gap, printed) == n * tag + (n - 1) * gap <= printed
LargestFit(n, tag, gap, printed) ==
    n >= 0 /\ Fits(n, tag, gap, printed) /\ ~Fits(n + 1, tag, gap, printed)

C2_ReferenceFormulaAllInputs ==
    (Computed /\ InputsNonNegative) =>
        /\ layout[1].cols = FloorDiv(Fin(RefPrintedW + paper.gap.horizontal.v),
                                     Fin(RefTagW + paper.gap.horizontal.v))
        /\ layout[1].rows = FloorDiv(Fin(RefPrintedH + paper.gap.vertical.v),
                                     Fin(RefTagH + paper.gap.vertical.v))

\* C2 (amended): for all non-negative inputs printedW/printedH are the paper size less
\* margins and twice the cut length, floored at 0, tagW/tagH are the item size plus its
\* gutters, and on an axis whose footprint is positive the count is
\* floor((printed+gap)/(tag+gap)), the largest n >= 0 with n*tag + (n-1)*gap <= printed;
\* on an axis whose footprint is 0 the count is 0.  Scenario A gives 188 x 275, 3 x 2, 6.
C2_ReferenceFormula ==
    (Computed /\ InputsNonNegative) =>
        LET gx == paper.gap.horizontal.v
            gy == paper.gap.vertical.v
            lr == layout[1]
        IN  /\ lr.printedW = Fin(RefPrintedW) /\ lr.printedH = Fin(RefPrintedH)
            /\ lr.tagW = Fin(RefTagW) /\ lr.tagH = Fin(RefTagH)
            /\ RefTagW > 0 =>
                  /\ lr.cols = Fin((RefPrintedW + gx) \div (RefTagW + gx))
                  /\ LargestFit(lr.cols.v, RefTagW, gx, RefPrintedW)
            /\ RefTagH > 0 =>
                  /\ lr.rows = Fin((RefPrintedH + gy) \div (RefTagH + gy))
                  /\ LargestFit(lr.rows.v, RefTagH, gy, RefPrintedH)
            /\ RefTagW = 0 => lr.cols = Fin(0)
            /\ RefTagH = 0 => lr.rows = Fin(0)
            /\ lr.items = Fin(lr.rows.v * lr.cols.v)
            /\ (paper = defaultPaper /\ image = defaultImage) =>
                  /\ lr.printedW = Fin(188) /\ lr.printedH = Fin(275)
                  /\ lr.cols = Fin(3) /\ lr.rows = Fin(2) /\ lr.items = Fin(6)

\* a layout with a gap where a partial item is left over on the horizontal axis
C2_Witness ==
    /\ Computed /\ InputsNonNegative
    /\ paper.gap.horizontal.v > 0 /\ RefTagW > 0 /\ layout[1].cols.v >= 2
    /\ (RefPrintedW + paper.gap.horizontal.v) % (RefTagW + paper.gap.horizontal.v) # 0

\* the footprint sums computeLayout clamps into tagW and tagH
FootW == Add(Add(image.width, clamp0(image.margin.left)), clamp0(image.margin.right))
FootH == Add(Add(image.height, clamp0(image.margin.top)), clamp0(image.margin.bottom))

IsBad(x) == (x.k = "fin" /\ x.v < 0) \/ x.k \in {"nan", "inf"}

\* C4: for each input field, the result with a negative or non-finite value in that
\* field equals the result with that field replaced by 0.
C4_ClampsEveryInput ==
    Computed =>
        \A f \in Fields :
            IsBad(FieldValue(paper, image, f)) =>
                LET z == WithField(paper, image, f, Fin(0))
                IN  layout[1] = computeLayout(z.paper, z.image)

(***************************************************************************)
(* Properties of exportNUp                                                 *)
(***************************************************************************)
Called == epc # "idle"
CellCount == plan.layout.rows * plan.layout.cols
SlotsMismatch == Called /\ Len(plan.slots) # CellCount

\* the operators on the page that `who` pushed
OpsBy(who) == SelectSeq(ops, LAMBDA o : o.by = who)

\* C5: a call of exportNUp whose slots array is not rows*cols long never gets
\* past the length test: it is still at the test or has failed with the
\* slots-length error, no document or page exists, nothing was embedded or placed, no trim
\* rectangle was collected, no operator was pushed and no bytes came back.
C5_MismatchFailsBeforeAnyWork ==
    SlotsMismatch =>
        /\ epc \in {"start", "failed"}
        /\ ~doc.created /\ doc.pages = <<>> /\ doc.embedded = 0
        /\ ops = <<>> /\ trims = <<>> /\ placed = <<>>
        /\ result.kind # "bytes"
        /\ epc = "failed" => result = Thrown("slots length must equal rows*cols")
        /\ epc = "start" => result = NoResult

C5_Witness ==
    /\ SlotsMismatch /\ epc = "failed" /\ result.kind = "error"
    /\ Len(plan.slots) > 0 /\ ~plan.slots[1].null

\* the cut marks are on the page
MarksDrawn == epc \in {"save", "done"}
TickCount == Len(SelectSeq(ops, LAMBDA o : o.by = "marks" /\ o.op = "stroke"))
BleedX == plan.slot.bleedMm.left + plan.slot.bleedMm.right
BleedY == plan.slot.bleedMm.top + plan.slot.bleedMm.bottom

Degenerate == Called /\ CellCount = 0 /\ plan.slots = <<>>

\* C7: exportNUp on a layout of zero cells with an empty slots array never
\* fails, embeds and places nothing, and pushes no cut-mark operator (not even a
\* graphics-state push); when it is done it has returned the bytes of one page,
\* and that page carries no cut-mark and no placement operator.
C7_DegenerateLayoutExports ==
    Degenerate =>
        /\ epc # "failed" /\ result.kind # "error"
        /\ placed = <<>> /\ doc.embedded = 0 /\ trims = <<>>
        /\ OpsBy("marks") = <<>> /\ OpsBy("place") = <<>>
        /\ epc = "done" =>
              /\ result.kind = "bytes" /\ Len(result.pages) = 1
              /\ \A i \in 1..Len(result.pages[1].ops) :
                    result.pages[1].ops[i].by \notin {"marks", "place"}

C7_Witness ==
    /\ Degenerate /\ epc = "done" /\ result.kind = "bytes"
    /\ plan.layout.rows > 0 /\ plan.layout.cols = 0

\* the point (x, y) turned by deg degrees about the origin, counter-clockwise
Turned(x, y, deg) ==
    CASE deg = 0 -> <<x, y>>
      [] deg = 90 -> <<0 - y, x>>
      [] deg = 180 -> <<0 - x, 0 - y>>
      [] deg = 270 -> <<y, 0 - x>>

\* where the operators of the k-th placement put the point (x, y) of the source
\* page: drawPage's offset, then the rotation, then the translation
OnPage(k, x, y) ==
    LET seg == SubSeq(OpsBy("place"), 5 * (k - 1) + 1, 5 * k)
        t == Turned(seg[4].a + x, seg[4].b + y, seg[3].a)
    IN  <<seg[2].a + t[1], seg[2].b + t[2]>>

Abs(x) == IF x < 0 THEN 0 - x ELSE x

PlacedSource(k) == plan.slots[placed[k].cell + 1].pdfBytes
PlacedOuter(k) == CellRect(plan, placed[k].r, placed[k].c).outer

\* C8: every placement is five operators (push, translate, rotate, draw, pop)
\* with no scaling operator; the page is drawn at the source's own width and
\* height; the rotation is 0, 90, 180 or 270; the corners of the source land so
\* that their midpoint (the image of the source's centre) is the centre of the
\* cell's outer rectangle; and the box they span is the source's width by height
\* for 0/180 and height by width for 90/270.
C8_PlacedAboutCentreUnscaled ==
    /\ Len(OpsBy("place")) = 5 * Len(placed)
    /\ \A i \in 1..Len(ops) : ops[i].op # "scale"
    /\ \A k \in 1..Len(placed) :
          LET seg == SubSeq(OpsBy("place"), 5 * (k - 1) + 1, 5 * k)
              src == PlacedSource(k)
              outer == PlacedOuter(k)
              lo == OnPage(k, 0, 0)
              hi == OnPage(k, src.w, src.h)
              swap == seg[3].a \in {90, 270}
          IN  /\ <<seg[1].op, seg[2].op, seg[3].op, seg[4].op, seg[5].op>> =
                    <<"pushGraphicsState", "translate", "rotateDegrees", "drawPage",
                      "popGraphicsState">>
              /\ seg[4].w = src.w /\ seg[4].h = src.h
              /\ seg[3].a \in {0, 90, 180, 270}
              /\ lo[1] + hi[1] = 2 * outer.x + outer.width
              /\ lo[2] + hi[2] = 2 * outer.y + outer.height
              /\ Abs(hi[1] - lo[1]) = (IF swap THEN src.h ELSE src.w)
              /\ Abs(hi[2] - lo[2]) = (IF swap THEN src.w ELSE src.h)

\* a finished export that placed a larger source turned by 90, next to cells
\* whose source is as large as the cell
C8_Witness ==
    /\ epc = "done" /\ Len(placed) >= 2
    /\ \E k \in 1..Len(placed) :
          /\ placed[k].rotateDeg = Fin(90)
          /\ PlacedSource(k) = SrcLarge
          /\ PlacedSource(k).w > PlacedOuter(k).width
    /\ \E k \in 1..Len(placed) : PlacedSource(k) = SrcEqual

(***************************************************************************)
(* Properties of missing pages and of buildCurrentNUpBytes                 *)
(***************************************************************************)
\* a filled cell whose source has no such page
NoSuchPage(slotData) == ~slotData.null /\ ~EmbedYieldsPage(slotData)

\* a selection whose file is not stored or whose page is outside 1..pageCount
BadSelection(sel) ==
    /\ ~sel.null
    /\ \/ ~uploads[sel.fileId].present
       \/ sel.pageNumber < 1
       \/ sel.pageNumber > Len(uploads[sel.fileId].pages)

ExtractError(sel) ==
    Thrown(IF uploads[sel.fileId].present THEN "Invalid page number" ELSE "No PDF found")

FrontMapDone == bpc \notin {"none", "start"}
BackMapDone == bpc \notin {"none", "start", "mapBack"}

\* C9: an export never gets past a filled cell whose source has no such page: the
\* loop stops at that cell, the call throws, and no bytes are returned, so the
\* cell is never skipped; every filled cell the loop has passed was placed. And
\* once mapStoreToNUpPlan has run for a side whose selection names a file that
\* is not stored or a page outside 1..pageCount (the front, or the back of a
\* duplex build whose front was mapped), the build has failed with
\* extractPageAsPdfBytes's error before any export.
C9_MissingPageFails ==
    /\ (Called /\ ~SlotsMismatch) =>
          /\ \A i \in 1..Len(plan.slots) :
                /\ NoSuchPage(plan.slots[i]) =>
                      /\ cell < i
                      /\ epc \notin {"save", "done"} /\ result.kind # "bytes"
                /\ (~plan.slots[i].null /\ i <= cell) =>
                      \E k \in 1..Len(placed) : placed[k].cell = i - 1
          /\ (epc = "failed") =>
                /\ NoSuchPage(plan.slots[cell + 1])
                /\ result.kind = "error"
                /\ result.err \in {"Invalid pageIndex", "embedPdf rejected"}
    /\ (FrontMapDone /\ BadSelection(frontSelection)) =>
          /\ bpc = "failed" /\ out = ExtractError(frontSelection)
          /\ ~Called /\ parts = <<>>
    /\ (BackMapDone /\ ~BadSelection(frontSelection) /\ duplex
            /\ BadSelection(backSelection)) =>
          /\ bpc = "failed" /\ out = ExtractError(backSelection)
          /\ ~Called /\ parts = <<>>

\* the build has thrown because the back selection names page 3 of a two-page file
C9_Witness ==
    /\ bpc = "failed" /\ out = Thrown("Invalid page number")
    /\ ~BadSelection(frontSelection) /\ ~frontSelection.null
    /\ duplex /\ backSelection = Selection("f1", 3)

HasPlan(p) == p.kind = "plan"
PartSides == [i \in 1..Len(parts) |-> parts[i].side]

\* C10: every part is the one-page result of an export; fronts come before
\* backs; no back plan and no back part exists unless duplex is on; and when
\* buildCurrentNUpBytes has returned: with no plan it returned null, with one
\* plan it returned that export's bytes as they are, and otherwise a document
\* whose pages are the front export's page followed by the back export's page,
\* so as many pages as there are exported plans.
C10_BuildFrontThenBack ==
    /\ \A i \in 1..Len(parts) :
          parts[i].bytes.kind = "bytes" /\ Len(parts[i].bytes.pages) = 1
    /\ PartSides \in {<<>>, <<"front">>, <<"back">>, <<"front", "back">>}
    /\ ~duplex => (~HasPlan(backPlan) /\ \A i \in 1..Len(parts) : parts[i].side # "back")
    /\ (bpc = "done") =>
          /\ PartSides = (IF HasPlan(frontPlan) THEN <<"front">> ELSE <<>>)
                         \o (IF HasPlan(backPlan) THEN <<"back">> ELSE <<>>)
          /\ HasPlan(frontPlan) = ~frontSelection.null
          /\ HasPlan(backPlan) = (duplex /\ ~backSelection.null)
          /\ (parts = <<>>) => out = ReturnedNull
          /\ (Len(parts) = 1) => out = parts[1].bytes
          /\ (Len(parts) = 2) =>
                /\ out.kind = "bytes"
                /\ out.pages = <<parts[1].bytes.pages[1], parts[2].bytes.pages[1]>>

\* a duplex build that returned two different pages, each with placements
C10_Witness ==
    /\ bpc = "done" /\ duplex /\ Len(parts) = 2
    /\ out.kind = "bytes" /\ Len(out.pages) = 2
    /\ out.pages[1] # out.pages[2]
    /\ \E i \in 1..Len(out.pages[1].ops) : out.pages[1].ops[i].op = "drawPage"
    /\ \E i \in 1..Len(out.pages[2].ops) : out.pages[2].ops[i].op = "drawPage"

(***************************************************************************)
(* Properties of failures, order and graphics state of the export          *)
(***************************************************************************)
\* how many of the first n slots are filled
RECURSIVE FilledUpTo(_, _)
FilledUpTo(slots, n) ==
    IF n = 0 THEN 0
    ELSE FilledUpTo(slots, n - 1) + (IF slots[n].null THEN 0 ELSE 1)

PlanCount == (IF HasPlan(frontPlan) THEN 1 ELSE 0) + (IF HasPlan(backPlan) THEN 1 ELSE 0)

\* C11: an export that failed at the placement of cell k has thrown an error and
\* stays where it failed: the loop is still at cell k (only the cells before k
\* were placed and only the trim rectangles up to k were collected), no cut-mark
\* or metadata operator was pushed and no bytes were returned. A build in which
\* an export failed returns no bytes: it has thrown that export's error or is
\* about to, and whenever a build has returned bytes every plan's export is
\* among its parts.
C11_FailurePropagates ==
    /\ (Called /\ ~SlotsMismatch /\ epc = "failed") =>
          /\ NoSuchPage(plan.slots[cell + 1])
          /\ result.kind = "error" /\ result.pages = <<>>
          /\ Len(placed) = FilledUpTo(plan.slots, cell)
          /\ \A k \in 1..Len(placed) : placed[k].cell < cell
          /\ Len(trims) = cell + 1
          /\ Len(OpsBy("place")) = 5 * Len(placed)
          /\ OpsBy("marks") = <<>> /\ OpsBy("meta") = <<>>
    /\ (bpc # "none" /\ epc = "failed") =>
          /\ bpc \in {"waitFront", "waitBack", "failed"}
          /\ out.kind \in {"none", "error"}
          /\ (bpc = "failed") => out = result
          /\ (bpc = "waitFront") => parts = <<>>
          /\ \A i \in 1..Len(parts) : parts[i].side = "front"
    /\ (bpc # "none" /\ out.kind = "bytes") =>
          /\ bpc = "done" /\ epc = "done"
          /\ Len(parts) = PlanCount
          /\ Len(out.pages) = PlanCount

\* the back export of a duplex build failed after the front export succeeded
C11_Witness ==
    /\ bpc = "failed" /\ epc = "failed" /\ Len(parts) = 1 /\ parts[1].side = "front"
    /\ out.kind = "error" /\ out = result
    /\ Len(plan.slots) > 1 /\ cell = 0

(***************************************************************************)
(* Properties of the imposition store                                      *)
(***************************************************************************)
Min(a, b) == IF a < b THEN a ELSE b

\* `now` is `before` cut or padded to max(n, 0) slots
Resized(before, now, n) ==
    /\ Len(now) = (IF n > 0 THEN n ELSE 0)
    /\ \A i \in 1..Min(Len(before), n) : now[i] = before[i]
    /\ \A i \in (Len(before) + 1)..n : now[i] = EmptySlot

\* C12: after ensureCapacity(n), frontSlots and backSlots both have max(n, 0)
\* slots, every slot below min(old length, n) is what it was, every new slot is
\* empty, the selections are untouched, and calling ensureCapacity(n) again
\* would leave both arrays as they are; a call on arrays that already had n
\* slots changed nothing.
C12_EnsureCapacityResizes ==
    (call.op = "ensureCapacity") =>
        /\ Resized(call.front, frontSlots, call.n)
        /\ Resized(call.back, backSlots, call.n)
        /\ padTo(frontSlots, call.n) = frontSlots
        /\ padTo(backSlots, call.n) = backSlots
        /\ (call.n > 0 /\ Len(call.front) = call.n) => frontSlots = call.front
        /\ (call.n > 0 /\ Len(call.back) = call.n) => backSlots = call.back

\* ensureCapacity(2) cut a front array of three slots and padded a back array of
\* one slot
C12_Witness ==
    /\ call.op = "ensureCapacity" /\ call.n = 2
    /\ Len(call.front) = 3 /\ ~call.front[1].empty /\ ~call.front[3].empty
    /\ Len(call.back) = 1 /\ ~call.back[1].empty
    /\ Len(frontSlots) = 2 /\ Len(backSlots) = 2 /\ backSlots[2] = EmptySlot


(***************************************************************************)
(* Order of the work inside exportNUp (SpecExport)                         *)
(***************************************************************************)
\* positions in the content stream of the operators pushed by `who`
PositionsBy(who) == {i \in 1..Len(ops) : ops[i].by = who}

\* C15: cells are taken one at a time in row-major order: the loop is at cell
\* r*cols + c, every cell before it has its trim rectangle collected and its
\* placement complete, none after it has been touched, while a placement is
\* awaited nothing else is drawn, and cut marks come after the last cell
C15_RowMajorOneAtATime ==
    Called =>
        /\ cell = r * plan.layout.cols + c
        /\ Len(trims) = cell + (IF epc = "embed" \/ (epc = "failed" /\ doc.created) THEN 1 ELSE 0)
        /\ \A k \in 1..Len(placed) :
              /\ placed[k].cell = placed[k].r * plan.layout.cols + placed[k].c
              /\ placed[k].cell < cell
              /\ ~plan.slots[placed[k].cell + 1].null
              /\ \A j \in 1..Len(placed) : j < k => placed[j].cell < placed[k].cell
        /\ Len(OpsBy("place")) = 5 * Len(placed)
        /\ (epc = "embed") => /\ ~plan.slots[cell + 1].null
                              /\ PositionsBy("marks") = {}
        /\ (PositionsBy("marks") # {}) =>
              /\ cell = CellCount /\ Len(trims) = CellCount
              /\ \A i \in PositionsBy("place"), j \in PositionsBy("marks") : i < j

\* a finished export of a 2 x 2 grid with an empty cell among filled ones
C15_Witness ==
    /\ epc = "done" /\ plan.layout.rows = 2 /\ plan.layout.cols = 2
    /\ Len(placed) = 3 /\ plan.slots[2].null
    /\ PositionsBy("marks") # {}

\* pushes minus pops among the first n operators of the content stream
Depth(n) ==
    Cardinality({i \in 1..n : ops[i].op = "pushGraphicsState"})
        - Cardinality({i \in 1..n : ops[i].op = "popGraphicsState"})

CountBy(who, name) == Cardinality({i \in PositionsBy(who) : ops[i].op = name})

\* the operators of `who` form one run that opens with a push, closes with the
\* matching pop and holds no other push or pop
Bracketed(who) ==
    PositionsBy(who) # {} =>
        LET lo == CHOOSE i \in PositionsBy(who) : \A j \in PositionsBy(who) : i <= j
            hi == CHOOSE i \in PositionsBy(who) : \A j \in PositionsBy(who) : j <= i
        IN  /\ PositionsBy(who) = lo..hi
            /\ ops[lo].op = "pushGraphicsState" /\ ops[hi].op = "popGraphicsState"
            /\ CountBy(who, "pushGraphicsState") = 1
            /\ CountBy(who, "popGraphicsState") = 1

\* C16: every pushGraphicsState is matched by a pop: the nesting depth is never
\* negative at any prefix of the page content and is 0 at its end; the cut-mark
\* batch sets cap, join, width and stroke colour once each inside one push/pop
\* pair; each placement and the metadata text sit in a pair of their own; and
\* the saved page holds exactly that content
C16_GraphicsStateBalanced ==
    Called =>
        /\ \A n \in 0..Len(ops) : Depth(n) >= 0
        /\ Depth(Len(ops)) = 0
        /\ Bracketed("marks")
        /\ PositionsBy("marks") # {} =>
              \A name \in {"setLineCap", "setLineJoin", "setLineWidth", "setStrokingColor"} :
                 CountBy("marks", name) = 1
        /\ Bracketed("meta")
        /\ \A k \in 1..Len(placed) :
              /\ OpsBy("place")[5 * k - 4].op = "pushGraphicsState"
              /\ OpsBy("place")[5 * k].op = "popGraphicsState"
              /\ \A i \in (5 * k - 3)..(5 * k - 1) :
                    OpsBy("place")[i].op \notin {"pushGraphicsState", "popGraphicsState"}
        /\ (epc = "done") => result.pages[1].ops = ops

\* a saved page with a placement, the cut marks and the metadata text
C16_Witness ==
    /\ epc = "done" /\ result.kind = "bytes"
    /\ Len(placed) >= 1
    /\ CountBy("marks", "stroke") > 0
    /\ CountBy("meta", "drawText") = 1
    /\ Depth(Len(result.pages[1].ops)) = 0

(***************************************************************************)
(* Where exportNUp puts the grid (SpecExport)                              *)
(***************************************************************************)
\* the outer (bleed-inclusive) rectangle around the k-th collected trim rectangle
OuterOfTrim(k) ==
    LET b == Geometry(plan).bleedPt
    IN  PtRect(trims[k].x - b.left, trims[k].y - b.bottom,
               trims[k].width + b.left + b.right, trims[k].height + b.top + b.bottom)

GridLeft == CHOOSE x \in {OuterOfTrim(k).x : k \in 1..Len(trims)} :
                \A k \in 1..Len(trims) : x <= OuterOfTrim(k).x

GridRight == CHOOSE x \in {OuterOfTrim(k).x + OuterOfTrim(k).width : k \in 1..Len(trims)} :
                \A k \in 1..Len(trims) : OuterOfTrim(k).x + OuterOfTrim(k).width <= x

\* the printed area of the page: inside the margins and the cut-mark clearance
PrintedLeft == mmToPt(plan.paper.marginMm.left) + mmToPt(plan.marks.cutLenMm)
PrintedRight == mmToPt(plan.paper.widthMm) - mmToPt(plan.paper.marginMm.right)
                   - mmToPt(plan.marks.cutLenMm)
PrintedBottom == mmToPt(plan.paper.marginMm.bottom) + mmToPt(plan.marks.cutLenMm)

\* every cell of a grid that has cells has been given its rectangle
GridLaidOut == Called /\ CellCount > 0 /\ Len(trims) = CellCount

\* C17: once the grid is laid out, (a) its block of outer rectangles is as far
\* from the left edge of the printed area as from the right edge, and (b) the
\* outer rectangles of the bottom row start at margin.bottom + cut length and
\* none starts lower
C17_GridCentredOnBaseline ==
    GridLaidOut =>
        /\ GridLeft - PrintedLeft = PrintedRight - GridRight
        /\ \A k \in 1..Len(trims) :
              /\ OuterOfTrim(k).y >= PrintedBottom
              /\ (k <= plan.layout.cols) => OuterOfTrim(k).y = PrintedBottom
              /\ OuterOfTrim(k) = CellRect(plan, (k - 1) \div plan.layout.cols,
                                           (k - 1) % plan.layout.cols).outer

\* a 2 x 2 grid laid out on a page with unequal left and right margins, a cut
\* length of 2 mm and unequal left and right bleed, off the left printed edge
C17_Witness ==
    /\ GridLaidOut /\ epc = "done"
    /\ plan.layout.rows = 2 /\ plan.layout.cols = 2
    /\ plan.paper.marginMm.left # plan.paper.marginMm.right
    /\ plan.marks.cutLenMm = 2
    /\ plan.slot.bleedMm.left # plan.slot.bleedMm.right
    /\ plan.slot.bleedMm.bottom > 0
    /\ GridLeft # PrintedLeft

(***************************************************************************)
(* Cut marks of a sheet built from the store (SpecBuild)                   *)
(***************************************************************************)
\* the plan came from mapStoreToNUpPlan for a paper that states its cut length
PlanFromPaperWithCutLength ==
    /\ bpc # "none" /\ Called
    /\ paper.cutMarkLengthMm # Undefined

Between(lo, x, hi) == lo <= x /\ x <= hi

\* the segment from (x1, y1) to (x2, y2) lies in the clearance band of one side:
\* between the edge of the paper margin and the edge of the printed area
InClearanceBand(x1, y1, x2, y2) ==
    LET cut == mmToPt(plan.marks.cutLenMm)
        xLo == mmToPt(plan.paper.marginMm.left)
        xHi == mmToPt(plan.paper.widthMm) - mmToPt(plan.paper.marginMm.right)
        yLo == mmToPt(plan.paper.marginMm.bottom)
        yHi == mmToPt(plan.paper.heightMm) - mmToPt(plan.paper.marginMm.top)
    IN  /\ Between(xLo, x1, xHi) /\ Between(xLo, x2, xHi)
        /\ Between(yLo, y1, yHi) /\ Between(yLo, y2, yHi)
        /\ \/ Between(yLo, y1, yLo + cut) /\ Between(yLo, y2, yLo + cut)
           \/ Between(yHi - cut, y1, yHi) /\ Between(yHi - cut, y2, yHi)
           \/ Between(xLo, x1, xLo + cut) /\ Between(xLo, x2, xLo + cut)
           \/ Between(xHi - cut, x1, xHi) /\ Between(xHi - cut, x2, xHi)

\* C18: on a sheet whose plan mapStoreToNUpPlan made (rows and cols from
\* computeLayout, the paper's cut length, the item's top gutter as offset) every
\* cut-mark tick lies inside the clearance band of a side, none in the paper
\* margin or off the page
C18_TicksInsideClearanceBand ==
    PlanFromPaperWithCutLength =>
        \A i \in PositionsBy("marks") :
            (ops[i].op = "moveTo") =>
                InClearanceBand(ops[i].a, ops[i].b, ops[i + 1].a, ops[i + 1].b)

(***************************************************************************)
(* What exportNUp draws for each cell (SpecExport)                         *)
(***************************************************************************)
FilledCells == {k \in 0..(Len(plan.slots) - 1) : ~plan.slots[k + 1].null}

\* the rotation the claim names for cell k
NamedRotation(k) ==
    LET own == plan.slots[k + 1].rotateDeg
        fallback == plan.slot.defaultRotateDeg
        chosen == IF own # Undefined THEN own
                  ELSE IF fallback # Undefined THEN fallback ELSE Fin(0)
    IN  IF chosen = Fin(90) \/ chosen = Fin(180) \/ chosen = Fin(270) THEN chosen.v ELSE 0

\* C19: a finished export has drawn every filled cell exactly once, turned by
\* the cell's own rotateDeg when it is defined (0 included), else by the slot
\* default, else by 0, anything but 90, 180 and 270 counting as 0; empty cells
\* draw nothing, yet every cell, empty or not, has its trim rectangle among
\* those the cut marks are made from
C19_EachFilledCellDrawnOnceTurned ==
    (epc = "done") =>
        /\ Len(placed) = Cardinality(FilledCells)
        /\ CountBy("place", "drawPage") = Cardinality(FilledCells)
        /\ \A k \in FilledCells :
              Cardinality({i \in 1..Len(placed) : placed[i].cell = k}) = 1
        /\ \A i \in 1..Len(placed) :
              /\ placed[i].cell \in FilledCells
              /\ placed[i].rotateDeg.v = NamedRotation(placed[i].cell)
              /\ OpsBy("place")[5 * i - 2].op = "rotateDegrees"
              /\ OpsBy("place")[5 * i - 2].a = NamedRotation(placed[i].cell)
        /\ Len(trims) = CellCount
        /\ \A k \in 0..(CellCount - 1) :
              trims[k + 1] = CellRect(plan, k \div plan.layout.cols,
                                      k % plan.layout.cols).trim
        /\ (CellCount > 0) => CountBy("marks", "stroke") >= 4

\* a finished export with empty cells around one cell that asks for rotation
\* 0 while the slot default is 90
C19_Witness ==
    /\ epc = "done" /\ CellCount = 4
    /\ Cardinality(FilledCells) = 1
    /\ plan.slot.defaultRotateDeg = Fin(90)
    /\ \E k \in FilledCells : plan.slots[k + 1].rotateDeg = Fin(0)
    /\ Len(placed) = 1 /\ placed[1].rotateDeg = Fin(0)
    /\ CountBy("marks", "stroke") > 0

\* the fields of the metadata line the claim names, in its order
NamedMetaLine ==
    (IF plan.meta.date = "" THEN <<>> ELSE <<plan.meta.date>>)
        \o (IF plan.meta.customerName = "" THEN <<>> ELSE <<plan.meta.customerName>>)
        \o (IF plan.meta.description = "" THEN <<>> ELSE <<plan.meta.description>>)

MetaWanted ==
    /\ plan.meta.displayMeta
    /\ plan.meta.date # "" \/ plan.meta.customerName # "" \/ plan.meta.description # ""

\* C20: a finished export holds the metadata text line exactly when displayMeta
\* is true and one of date, customer name, description is non-empty; the line
\* is those fields in that order without the empty ones, drawn once; otherwise
\* no text is drawn
C20_MetaLineIffWanted ==
    (epc = "done") =>
        /\ MetaWanted <=> CountBy("meta", "drawText") > 0
        /\ MetaWanted =>
              /\ CountBy("meta", "drawText") = 1
              /\ \A i \in PositionsBy("meta") :
                    (ops[i].op = "drawText") => ops[i].t = NamedMetaLine
        /\ ~MetaWanted => PositionsBy("meta") = {}
        /\ \A i \in 1..Len(ops) : (ops[i].op = "drawText") => ops[i].by = "meta"

\* a finished export that drew date and description, the customer name empty
C20_Witness ==
    /\ epc = "done" /\ plan.meta.displayMeta
    /\ plan.meta.date # "" /\ plan.meta.customerName = "" /\ plan.meta.description # ""
    /\ \E i \in PositionsBy("meta") :
          ops[i].op = "drawText" /\ ops[i].t = <<plan.meta.date, plan.meta.description>>

(***************************************************************************)
(* Properties of the combine-PDF store and combinePdfs (SpecCombine)       *)
(***************************************************************************)
Ids(list) == [i \in 1..Len(list) |-> list[i].id]

RECURSIVE PageCount(_)
PageCount(list) ==
    IF list = <<>> THEN 0
    ELSE Len(list[1].file) + PageCount(SubSeq(list, 2, Len(list)))

\* the order value the array gives to the file a merged page came from
OrderOfPage(pg, list) ==
    list[CHOOSE i \in 1..Len(list) : list[i].id = pg.of].order

\* C13: after any sequence of addFile (any positive order), deleteFile and
\* updateOrder calls whose persistence succeeded, the ids getAllFilesSorted
\* returns from IndexedDB are, in sequence, the ids of the in-memory files list
C13_ReloadRestoresOrder ==
    Ids(getAllFilesSorted(idb)) = Ids(files)

\* C14: the merged document holds every page of every input file exactly once,
\* files in ascending order value and each file's pages in their own order, so
\* its page count is the sum of the inputs' page counts; the array that was
\* passed is left as it was
C14_MergedInAscendingOrder ==
    (merged.kind = "blob") =>
        /\ Len(merged.pages) = PageCount(merged.given)
        /\ \A i \in 1..Len(merged.given) : \A n \in 1..Len(merged.given[i].file) :
              Cardinality({p \in 1..Len(merged.pages) :
                              merged.pages[p] = merged.given[i].file[n]}) = 1
        /\ \A p, q \in 1..Len(merged.pages) :
              p < q =>
                 /\ OrderOfPage(merged.pages[p], merged.given)
                       <= OrderOfPage(merged.pages[q], merged.given)
                 /\ (merged.pages[p].of = merged.pages[q].of
                       => merged.pages[p].page < merged.pages[q].page)
        /\ combineArg = merged.given \/ (combineArg = <<>> /\ files = merged.given)

\* merged from an array of three files that is not in ascending order and
\* holds the two-page file
C14_Witness ==
    /\ merged.kind = "blob"
    /\ Len(merged.given) = MaxFiles
    /\ combineArg = merged.given
    /\ \E i, j \in 1..Len(merged.given) :
          i < j /\ merged.given[i].order > merged.given[j].order
    /\ \E i \in 1..Len(merged.given) : Len(merged.given[i].file) = 2
    /\ Len(merged.pages) = 4

(***************************************************************************)
(* Clearing the slots of one file (SpecStore)                              *)
(***************************************************************************)
\* C21: a step of clearByFileId(fileId) empties exactly the front and back slots
\* that hold a page of fileId: every other slot, filled or empty, stays as it
\* was, both arrays keep their length, and paper, image and both selections are
\* left alone
C21_ClearByFileIdFrame ==
    [][(call'.op = "clearByFileId" /\ call'.front = frontSlots /\ call'.back = backSlots) =>
          /\ Len(frontSlots') = Len(frontSlots) /\ Len(backSlots') = Len(backSlots)
          /\ \A i \in 1..Len(frontSlots) :
                IF ~frontSlots[i].empty /\ frontSlots[i].sourceFileId = call'.fileId
                THEN frontSlots'[i] = EmptySlot
                ELSE frontSlots'[i] = frontSlots[i]
          /\ \A i \in 1..Len(backSlots) :
                IF ~backSlots[i].empty /\ backSlots[i].sourceFileId = call'.fileId
                THEN backSlots'[i] = EmptySlot
                ELSE backSlots'[i] = backSlots[i]
          /\ UNCHANGED <<paper, image, frontSelection, backSelection>>]_vars

\* clearByFileId("f1") on a front array that held a page of f1, a page of f2 and
\* an empty slot, with a front selection on f1
C21_Witness ==
    /\ call.op = "clearByFileId" /\ call.fileId = "f1"
    /\ Len(call.front) = 3
    /\ \E i, j, k \in 1..3 :
          /\ call.front[i].sourceFileId = "f1" /\ frontSlots[i] = EmptySlot
          /\ call.front[j].sourceFileId = "f2" /\ frontSlots[j] = call.front[j]
          /\ call.front[k].empty /\ frontSlots[k] = EmptySlot
          /\ ~call.front[i].empty /\ ~call.front[j].empty
    /\ frontSelection = Selection("f1", 1)


(***************************************************************************)
(* C22: a step in which replicatePageToSide sets a side gives every slot   *)
(* of that side the file and page number of the page applied and one and   *)
(* the same rotation, makes that file and page the side's selection, and   *)
(* leaves the slots and the selection of the other side as they were.      *)
(***************************************************************************)
SideSlotsAfter(side) == IF side = "front" THEN frontSlots' ELSE backSlots'

C22_ReplicateFrame ==
    [][(call' # call /\ call'.op = "replicatePageToSide") =>
          /\ \A i \in 1..Len(SideSlotsAfter(call'.side)) :
                /\ ~SideSlotsAfter(call'.side)[i].empty
                /\ SideSlotsAfter(call'.side)[i].sourceFileId = call'.page.sourceFileId
                /\ SideSlotsAfter(call'.side)[i].sourcePageNumber = call'.page.sourcePageNumber
                /\ SideSlotsAfter(call'.side)[i].rotationDeg
                      = SideSlotsAfter(call'.side)[1].rotationDeg
          /\ IF call'.side = "front"
             THEN /\ frontSelection'
                        = Selection(call'.page.sourceFileId, call'.page.pageNumber)
                  /\ UNCHANGED <<backSlots, backSelection>>
             ELSE /\ backSelection'
                        = Selection(call'.page.sourceFileId, call'.page.pageNumber)
                  /\ UNCHANGED <<frontSlots, frontSelection>>]_vars

\* page 2 of f1, turned, has been applied to a front of two slots whose back
\* shows page 1
C22_Witness ==
    /\ call.op = "replicatePageToSide" /\ call.side = "front"
    /\ Len(frontSlots) = 2
    /\ \A i \in 1..2 : frontSlots[i] = UploadedPreview("f1", 2, Fin(90), DataUrl("f1", 2, 1))
    /\ frontSelection = Selection("f1", 2)
    /\ Len(backSlots) = 2 /\ ~backSlots[1].empty /\ backSlots[1].sourcePageNumber = 1
    /\ backSelection = Selection("f1", 1)


(***************************************************************************)
(* C24: whenever no call is suspended, frontSlots and backSlots both have  *)
(* as many slots as the layout of the current paper and item has cells.    *)
(***************************************************************************)
C24_SlotArraysTrackLayout ==
    pending = {} => Len(frontSlots) = slotsPerSheet /\ Len(backSlots) = slotsPerSheet


(***************************************************************************)
(* C23: while a sheet is rotated, at most one preview rotation of the call *)
(* is in flight: no rotateSheet call waits for more than one image.        *)
(***************************************************************************)
InFlight(task) == IF task.kind = "rotate" THEN Cardinality(task.waiting) ELSE 0

C23_OneRotationInFlight == \A task \in pending : InFlight(task) <= 1


\* C23, amended: a rotateSheet call starts the rotation of every filled slot
\* of the side together, before it waits, and the side's slots are replaced
\* in one step by the rotated array, when none of these rotations is left
\* in flight.
C23_RotationsStartedTogether ==
    [][/\ \A task \in pending' :
             (/\ task.kind = "rotate"
              /\ ~\E t \in pending :
                     t.kind = "rotate" /\ t.side = task.side /\ t.srcArr = task.srcArr)
                => task.waiting = FilledIn(task.srcArr)
       /\ (call' # call /\ call'.op = "rotateSheet" /\ ~call'.persisted) =>
             \E task \in pending :
                /\ task.kind = "rotate" /\ task.side = call'.side /\ task.waiting = {}
                /\ SideSlotsAfter(task.side) = RotatedArray(task.srcArr)]_vars

\* a rotateSheet call waits for the rotations of two slots at once
C23_Witness ==
    \E task \in pending :
       /\ task.kind = "rotate" /\ task.waiting = {1, 2}
       /\ task.srcArr[1].src = task.srcArr[2].src


(***************************************************************************)
(* C26: when rotateSheet(side) has completed and the side still holds the  *)
(* array it set, the previews store holds, for the page of every filled    *)
(* slot of the side, the rotation and the raster of that slot.             *)
(***************************************************************************)
C26_PersistedPreviewIsSlot ==
    (/\ call.op = "rotateSheet" /\ call.persisted
     /\ SideSlots(call.side) = call.rotated) =>
        \A i \in FilledIn(SideSlots(call.side)) :
           LET slot == SideSlots(call.side)[i]
               rec == previews[<<slot.sourceFileId, slot.sourcePageNumber>>]
           IN  /\ rec.present
               /\ rec.rotationDeg = slot.rotationDeg.v
               /\ rec.dataUrl = slot.src


(***************************************************************************)
(* C25: the uploaded entries never hold more than GLOBAL_PAGE_CAP pages in *)
(* total.                                                                  *)
(***************************************************************************)
C25_PageCapHolds == totalPages <= GLOBAL_PAGE_CAP


(***************************************************************************)
(* C29: whenever no call is suspended, a side with a filled slot has a     *)
(* selection, and the selection names the file of every filled slot of the *)
(* side.                                                                   *)
(***************************************************************************)
SelectionCovers(selection, slots) ==
    FilledIn(slots) # {} =>
        /\ ~selection.null
        /\ \A i \in FilledIn(slots) : slots[i].sourceFileId = selection.fileId

C29_SelectionMatchesSlots ==
    pending = {} =>
        /\ SelectionCovers(frontSelection, frontSlots)
        /\ SelectionCovers(backSelection, backSlots)


PlanMatchesLayout(p) ==
    HasPlan(p) =>
        /\ p.plan.layout.rows = computeLayout(paper, image).rows.v
        /\ p.plan.layout.cols = computeLayout(paper, image).cols.v
        /\ Len(p.plan.slots) = p.plan.layout.rows * p.plan.layout.cols

C28_PlanPassesSlotGate ==
    /\ PlanMatchesLayout(frontPlan) /\ PlanMatchesLayout(backPlan)
    /\ frontPlan # NoPlanYet => (frontPlan.kind = "null" <=> frontSelection.null)
    /\ (backPlan # NoPlanYet /\ duplex) => (backPlan.kind = "null" <=> backSelection.null)
    /\ bpc # "none" => result # Thrown("slots length must equal rows*cols")

\* a front plan of two slots was mapped from a store whose front array has one
\* slot, and exportNUp has exported it; the back, which has no selection, gave null
C28_Witness ==
    /\ HasPlan(frontPlan) /\ Len(frontPlan.plan.slots) = 2 /\ Len(frontSlots) = 1
    /\ bpc = "done" /\ Len(parts) = 1
    /\ duplex /\ backSelection.null /\ backPlan.kind = "null"


(***************************************************************************)
(* C30: on a sheet built from the store, the outer rectangle of every cell *)
(* exportNUp has laid out lies inside the printed area: the page inset on  *)
(* each side by the paper margin and the cut-mark length of the export.    *)
(***************************************************************************)
PrintedTop == mmToPt(plan.paper.heightMm) - mmToPt(plan.paper.marginMm.top)
                 - mmToPt(plan.marks.cutLenMm)

InsidePrintedArea(rect) ==
    /\ PrintedLeft <= rect.x /\ rect.x + rect.width <= PrintedRight
    /\ PrintedBottom <= rect.y /\ rect.y + rect.height <= PrintedTop

C30_GridInsidePrintedArea ==
    (bpc # "none" /\ Called) => \A k \in 1..Len(trims) : InsidePrintedArea(OuterOfTrim(k))

====
